---- MODULE Spec2Model ----
(***************************************************************************)
(* Verification model of SGCT (Simple Graphics Cluster Toolkit):           *)
(*   - the correction-mesh loaders (mpcdimesh.cpp, sciss.cpp) as called    *)
(*     from Viewport::loadData,                                            *)
(*   - the frame-synchronised callbacks of the shipped applications        *)
(*     (datatransfer, simplenavigation, spout, spoutsender).               *)
(*                                                                         *)
(* Numbers: a C++ float/double is represented by a fixed-point integer in  *)
(* units of 1/Unit.  In a binary file or buffer a float occupies one       *)
(* 32-bit little-endian word holding that integer in two's complement.     *)
(***************************************************************************)
EXTENDS Integers, Naturals, Sequences, FiniteSets, TLC

VARIABLES
    \* ---- Viewport + correction mesh (viewport.cpp, mpcdimesh.cpp, sciss.cpp)
    mpcdiWarpMesh,   \* Viewport::_mpcdiWarpMesh : sequence of bytes
    meshFile,        \* the file named by Viewport::_meshFilename (or NoFile)
    meshMeta,        \* how the configured buffer/file was built (read by properties only)
    meshOut,         \* outcome of the last CorrectionMesh load (or NoOut)
    parent,          \* the owning viewport: user position, view plane, rect
    parentBefore,    \* the owning viewport as it was when loadData was entered
    \* ---- a cluster running one of the applications
    app,             \* which application the nodes run
    phase,           \* per node: the last stage of the frame it completed
    frame,           \* number of frames swapped so far
    globals,         \* per node: the globals of the application process
    inbox,           \* per client: the frame buffer sent by the master, not yet decoded
    wire,            \* the bytes the master encoded for the current frame
    encoded,         \* the synchronised values the master encoded, with their frame
    decodePos,       \* per node: the cursor after the last decode
    used,            \* per node: the synchronised values its draw callbacks read
    events,          \* per node: input events delivered so far
    terminated,      \* per node: Engine::terminate was called
    loaderPc,        \* position of the loader thread (datatransfer master)
    packages,        \* per client: data packages in flight from the master
    acks,            \* acknowledgements in flight to the master
    \* ---- one window with one viewport (window.cpp)
    win,             \* the members of the Window
    wvp,             \* its viewport: view plane, size, non-linear projection
    winPc,           \* the next step of the render loop for this window
    swapGroup,       \* the static swap-group members of Window and the hardware counter
    \* ---- one viewport configured by field of view (BaseViewport.cpp)
    bvp,             \* the BaseViewport
    bvpCall,         \* the last call made on it, with its arguments and result
    \* ---- the MessageHandler (MessageHandler.cpp)
    mh,              \* its members, and what the calls so far appended
    threads,         \* two threads calling MessageHandler::print: their positions
    \* ---- the ShaderManager (shadermanager.cpp)
    shaders,         \* its programs, and the outcome of the last call
    \* ---- the Wiimote head tracker (vrpn_Tracker_WiimoteHead.c)
    tracker,         \* its members, and the last report and update
    \* ---- the OpenGL contexts of the windows (window.cpp)
    context          \* the windows, the cached owner, the context really current

meshVars == <<mpcdiWarpMesh, meshFile, meshMeta, meshOut, parent, parentBefore>>

clusterVars == <<app, phase, frame, globals, inbox, wire, encoded, decodePos, used,
                 events, terminated, loaderPc, packages, acks>>

windowVars == <<win, wvp, winPc>>

swapVars == <<swapGroup>>

fovVars == <<bvp, bvpCall>>

msgVars == <<mh>>

threadVars == <<threads>>

shaderVars == <<shaders>>

trackerVars == <<tracker>>

contextVars == <<context>>

(* the variables of the four specifications defined last *)
lateVars == <<threads, shaders, tracker, context>>

vars == <<mpcdiWarpMesh, meshFile, meshMeta, meshOut, parent, parentBefore,
          app, phase, frame, globals, inbox, wire, encoded, decodePos, used,
          events, terminated, loaderPc, packages, acks,
          win, wvp, winPc, swapGroup, bvp, bvpCall, mh,
          threads, shaders, tracker, context>>

(* the variables each specification leaves alone *)
notMesh == <<clusterVars, windowVars, swapVars, fovVars, msgVars, lateVars>>
notCluster == <<meshVars, windowVars, swapVars, fovVars, msgVars, lateVars>>
notWindow == <<meshVars, clusterVars, swapVars, fovVars, msgVars, lateVars>>
notSwap == <<meshVars, clusterVars, windowVars, fovVars, msgVars, lateVars>>
notFov == <<meshVars, clusterVars, windowVars, swapVars, msgVars, lateVars>>
notMsg == <<meshVars, clusterVars, windowVars, swapVars, fovVars, lateVars>>
earlyVars == <<meshVars, clusterVars, windowVars, swapVars, fovVars>>
notThreads == <<earlyVars, shaders, tracker, context>>   \* mh and threads both move
notShaders == <<earlyVars, msgVars, threads, tracker, context>>
notTracker == <<earlyVars, msgVars, threads, shaders, context>>
notContext == <<earlyVars, msgVars, threads, shaders, tracker>>

ClusterOff ==
    /\ app = "none" /\ phase = << >> /\ frame = 0 /\ globals = << >> /\ inbox = << >>
    /\ wire = << >> /\ encoded = << >> /\ decodePos = << >> /\ used = << >>
    /\ events = << >> /\ terminated = << >>
    /\ loaderPc = "off" /\ packages = << >> /\ acks = << >>
WindowOff == win = << >> /\ wvp = << >> /\ winPc = "off"
SwapOff == swapGroup = << >>
FovOff == bvp = << >> /\ bvpCall = << >>
MsgOff == mh = << >>
ThreadsOff == threads = << >>
ShadersOff == shaders = << >>
TrackerOff == tracker = << >>
ContextOff == context = << >>
LateOff == ThreadsOff /\ ShadersOff /\ TrackerOff /\ ContextOff

----------------------------------------------------------------------------
(* Bounds of the model *)

MaxCols     == 4     \* largest PFM column count among the inputs
MaxRows     == 3     \* largest PFM row count among the inputs
MaxPad      == 2     \* header paddings tried: 0..MaxPad times PadStep blanks
PadStep     == 48
MaxIndices  == 3     \* number of indices in a Format B file that has any
MaxFrames   == 2     \* frames a cluster renders
MaxEvents   == 3     \* key, mouse and drop events delivered to the nodes
MaxResizes  == 3     \* resize callbacks delivered to the window

(* Program constants *)

MaxHeaderLineLength == 100
Unit == 10 ^ 3     \* fixed-point resolution of the float representation

----------------------------------------------------------------------------
(* Machine arithmetic *)

(* A 32-bit word is represented by the signed integer it holds (two's
   complement).  All counts of the inputs stay far below 2^31, so no unsigned
   product of the source wraps within the bounds of the model. *)
Min(a, b) == IF a < b THEN a ELSE b
Max(a, b) == IF a > b THEN a ELSE b

(* Truncating integer division (C semantics), for any sign of a; b > 0 *)
CDiv(a, b) == IF a >= 0 THEN a \div b ELSE -((-a) \div b)

(* Fixed-point product and quotient *)
FMul(a, b) == CDiv(a * b, Unit)
FDiv(a, b) == CDiv(a * Unit, b)

(* fabs *)
Abs(v) == IF v < 0 THEN -v ELSE v

(* Little-endian bytes of a 32-bit word (\div rounds down, so a negative
   word gives its two's complement bytes) *)
WordBytes(w) ==
    << w % 256, (w \div 256) % 256, (w \div 65536) % 256, (w \div 16777216) % 256 >>
FloatBytes(v) == WordBytes(v)

NL == 10
IsSpace(c) == c \in {9, 10, 11, 12, 13, 32}
IsDigit(c) == c >= 48 /\ c <= 57

RECURSIVE Digits(_)
Digits(n) == IF n < 10 THEN << 48 + n >> ELSE Digits(n \div 10) \o << 48 + (n % 10) >>

Repeat(s, n) == [i \in 1..(n * Len(s)) |-> s[((i - 1) % Len(s)) + 1]]

----------------------------------------------------------------------------
(* mpcdimesh.cpp *)

NoOut == [loader |-> "none"]

(* memcpy(&val, &src[idx], 4): the word at byte offset idx; bytes past the
   end of the buffer are indeterminate, read here as 0 and reported by the
   caller through the cursor *)
ByteAt(src, i) == IF i + 1 <= Len(src) THEN src[i + 1] ELSE 0
readMeshBuffer(src, idx) ==
    LET top == ByteAt(src, idx + 3)
    IN  ByteAt(src, idx) + 256 * ByteAt(src, idx + 1) + 65536 * ByteAt(src, idx + 2)
            + 16777216 * (IF top >= 128 THEN top - 256 ELSE top)

(* The do/while of the header scan (lines 37-49), in closed form: the loop
   copies src[0..] into headerBuffer one byte at a time and stops after the
   third newline, or throws when the cursor reaches the end of the buffer.
   Returns the cursor, the number of bytes stored into headerBuffer and
   whether three newlines were found. *)
HeaderScan(src) ==
    LET newlines == {i \in 1..Len(src) : src[i] = NL}
        third == {i \in newlines : Cardinality({j \in newlines : j < i}) = 2}
    IN  IF third = {}
        THEN [found |-> FALSE, srcIdx |-> Len(src), index |-> Len(src)]
        ELSE LET t == CHOOSE i \in third : TRUE
             IN  [found |-> TRUE, srcIdx |-> t, index |-> t]

(* sscanf pieces.  s is the written part of headerBuffer (not terminated by
   a NUL in the source); positions are 1-based. *)
RECURSIVE SkipSpace(_, _)
SkipSpace(s, i) == IF i <= Len(s) /\ IsSpace(s[i]) THEN SkipSpace(s, i + 1) ELSE i

RECURSIVE ScanDigits(_, _, _)
ScanDigits(s, i, acc) ==
    IF i <= Len(s) /\ IsDigit(s[i])
    THEN ScanDigits(s, i + 1, acc * 10 + (s[i] - 48))
    ELSE [val |-> acc, next |-> i]

(* %d : optional sign, at least one digit.  ok = FALSE is a matching failure *)
ScanInt(s, i0) ==
    LET i == SkipSpace(s, i0)
        neg == i <= Len(s) /\ s[i] = 45
        j == IF i <= Len(s) /\ s[i] \in {43, 45} THEN i + 1 ELSE i
        d == ScanDigits(s, j, 0)
    IN  [ok |-> d.next > j,
         val |-> IF neg THEN -d.val ELSE d.val,
         next |-> d.next]

(* sscanf(headerBuffer, "%2c %d %d", fileFormatHeader, &nCols, &nRows):
   the number of converted items (at most 3, -1 for end of input before the
   first conversion) and the converted values *)
Sscanf2cdd(s) ==
    IF Len(s) < 2
    THEN [res |-> -1, tag |-> << 0, 0 >>, nCols |-> 0, nRows |-> 0]
    ELSE LET tag == SubSeq(s, 1, 2)
             c == ScanInt(s, 3)
             r == ScanInt(s, c.next)
         IN  IF ~c.ok THEN [res |-> 1, tag |-> tag, nCols |-> 0, nRows |-> 0]
             ELSE IF ~r.ok THEN [res |-> 2, tag |-> tag, nCols |-> c.val, nRows |-> 0]
             ELSE [res |-> 3, tag |-> tag, nCols |-> c.val, nRows |-> r.val]

MpcdiThrow(msg, srcIdx, index) ==
    [loader |-> "mpcdi", status |-> "throw", error |-> msg,
     srcIdx |-> srcIdx, headerStores |-> index,
     vertices |-> << >>, indices |-> << >>, geometryType |-> "none"]

(* the value the header test compares the sscanf result with (line 56) *)
ExpectedHeaderItems_Three == 4 - 1
ExpectedHeaderItems == 4

(* lines 64-143: everything after the header checks *)
MpcdiBody(src, scan, hdr) ==
    LET nCols == hdr.nCols
        nRows == hdr.nRows
        nCorrectionValues == nCols * nRows
        n == Max(nCorrectionValues, 0)
        start == scan.srcIdx
        corrGridX == [i \in 1..n |-> readMeshBuffer(src, start + 12 * (i - 1))]
        corrGridY == [i \in 1..n |-> readMeshBuffer(src, start + 12 * (i - 1) + 4)]
        smoothX(i) == IF nCols = 1 THEN 0 ELSE FDiv(((i - 1) % nCols) * Unit, (nCols - 1) * Unit)
        smoothY(i) == IF nRows = 1 THEN Unit
                      ELSE Unit - FDiv(((i - 1) \div nCols) * Unit, (nRows - 1) * Unit)
        vertices == [i \in 1..n |->
                        [x |-> 2 * (smoothX(i) + corrGridX[i]) - Unit,
                         y |-> 2 * (smoothY(i) + corrGridY[i]) - Unit,
                         s |-> smoothX(i), t |-> smoothY(i),
                         r |-> Unit, g |-> Unit, b |-> Unit, a |-> Unit]]
        nc == nCols - 1
        nr == nRows - 1
        Cell(k) == [c |-> (k - 1) \div nr, r |-> (k - 1) % nr]   \* r is the inner loop
        i0(k) == Cell(k).r * nCols + Cell(k).c
        i1(k) == Cell(k).r * nCols + (Cell(k).c + 1)
        i2(k) == (Cell(k).r + 1) * nCols + (Cell(k).c + 1)
        i3(k) == (Cell(k).r + 1) * nCols + Cell(k).c
        Quad(k) == << i0(k), i1(k), i2(k), i0(k), i2(k), i3(k) >>
        indices == [j \in 1..(6 * nc * nr) |-> Quad(((j - 1) \div 6) + 1)[((j - 1) % 6) + 1]]
    IN  [loader |-> "mpcdi", status |-> "ok", error |-> "",
         srcIdx |-> start + 12 * n, headerStores |-> scan.index,
         vertices |-> vertices, indices |-> indices, geometryType |-> "GL_TRIANGLES"]

(* lines 51-63: header syntax and tag, then the body *)
MpcdiParse(src, scan) ==
    LET hdr == Sscanf2cdd(SubSeq(src, 1, Min(scan.index, MaxHeaderLineLength)))
    IN  IF hdr.res # ExpectedHeaderItems
        THEN MpcdiThrow("Invalid header syntax", scan.srcIdx, scan.index)
        ELSE IF hdr.tag[1] # 80 \/ hdr.tag[2] # 70
        THEN MpcdiThrow("Incorrect file type. Unknown header type", scan.srcIdx, scan.index)
        ELSE MpcdiBody(src, scan, hdr)

(* The set of outcomes of generateMpcdiMesh on the buffer src.  A store past
   headerBuffer[99] or a read past the end of src is undefined behaviour:
   the call may crash or carry on. *)
generateMpcdiMesh(src) ==
    LET scan == HeaderScan(src)
        crash == [MpcdiThrow("", scan.srcIdx, scan.index) EXCEPT !.status = "crash"]
        cont == IF ~scan.found
                THEN MpcdiThrow("Error reading from file. Could not find lines",
                                scan.srcIdx, scan.index)
                ELSE MpcdiParse(src, scan)
    IN  IF scan.index > MaxHeaderLineLength \/ cont.srcIdx > Len(src)
        THEN {crash, cont}
        ELSE {cont}

----------------------------------------------------------------------------
(* BaseViewport.cpp / BaseViewport.h / projectionplane.h *)

Vec3(x, y, z) == << x, y, z >>
Cross(a, b) == << FMul(a[2], b[3]) - FMul(a[3], b[2]),
                  FMul(a[3], b[1]) - FMul(a[1], b[3]),
                  FMul(a[1], b[2]) - FMul(a[2], b[1]) >>

(* glm: quat * vec3 *)
QuatRotate(q, v) ==
    LET qv == << q.x, q.y, q.z >>
        uv == Cross(qv, v)
        uuv == Cross(qv, uv)
    IN  [i \in 1..3 |-> v[i] + 2 * (FMul(uv[i], q.w) + uuv[i])]

QuatIdentity == [w |-> Unit, x |-> 0, y |-> 0, z |-> 0]

(* tanf(glm::radians(a)) for a in fixed-point degrees: tabulated every five
   degrees on [0, 85], interpolated linearly in between, odd in a *)
TanTable == << 0, 87, 176, 268, 364, 466, 577, 700, 839, 1000,
               1192, 1428, 1732, 2145, 2747, 3732, 5671, 11430 >>
TanPos(a) ==
    LET step == 5 * Unit
        k == Min(a \div step, 17)
        lo == TanTable[k + 1]
        hi == TanTable[Min(k + 1, 17) + 1]
    IN  lo + CDiv((hi - lo) * (a - k * step), step)
TanDeg(a) == IF a >= 0 THEN TanPos(a) ELSE -TanPos(-a)

setViewPlaneCoordsFromUnTransformedCoords(vp, lowerLeft, upperLeft, upperRight, rot) ==
    [vp EXCEPT !.plane = [lowerLeft |-> QuatRotate(rot, lowerLeft),
                          upperLeft |-> QuatRotate(rot, upperLeft),
                          upperRight |-> QuatRotate(rot, upperRight)]]

setViewPlaneCoordsUsingFOVs(vp, up, down, left, right, rot, dist) ==
    LET ll == Vec3(FMul(dist, TanDeg(left)), FMul(dist, TanDeg(down)), -dist)
        ul == Vec3(FMul(dist, TanDeg(left)), FMul(dist, TanDeg(up)), -dist)
        ur == Vec3(FMul(dist, TanDeg(right)), FMul(dist, TanDeg(up)), -dist)
        v1 == [vp EXCEPT !.mRot = rot,
                         !.mFOV = << up, down, left, right >>,
                         !.mDistance = dist,
                         !.unTransformed = [lowerLeft |-> ll, upperLeft |-> ul,
                                            upperRight |-> ur]]
    IN  setViewPlaneCoordsFromUnTransformedCoords(v1, ll, ul, ur, rot)

(* lines 204-214 *)
updateFovToMatchAspectRatio_AlsoVertical(vp, oldRatio, newRatio) ==
    LET k == FDiv(newRatio, oldRatio)
        sc(c) == Vec3(FMul(c[1], k), FMul(c[2], k), c[3])
        u == vp.unTransformed
        v1 == [vp EXCEPT !.unTransformed = [lowerLeft |-> sc(u.lowerLeft),
                                            upperLeft |-> sc(u.upperLeft),
                                            upperRight |-> sc(u.upperRight)]]
    IN  setViewPlaneCoordsFromUnTransformedCoords(
            v1, v1.unTransformed.lowerLeft, v1.unTransformed.upperLeft,
            v1.unTransformed.upperRight, v1.mRot)
updateFovToMatchAspectRatio(vp, oldRatio, newRatio) ==
    LET k == FDiv(newRatio, oldRatio)
        sc(c) == Vec3(FMul(c[1], k), c[2], c[3])
        u == vp.unTransformed
        v1 == [vp EXCEPT !.unTransformed = [lowerLeft |-> sc(u.lowerLeft),
                                            upperLeft |-> sc(u.upperLeft),
                                            upperRight |-> sc(u.upperRight)]]
    IN  setViewPlaneCoordsFromUnTransformedCoords(
            v1, v1.unTransformed.lowerLeft, v1.unTransformed.upperLeft,
            v1.unTransformed.upperRight, v1.mRot)

DefaultDist == 10 * Unit

(* a freshly constructed viewport; mFOV and mDistance have no initialiser *)
InitViewport ==
    [userPos |-> Vec3(0, 0, 0),
     mRot |-> QuatIdentity,
     mFOV |-> "uninitialised",
     mDistance |-> "uninitialised",
     unTransformed |-> "uninitialised",
     plane |-> [lowerLeft |-> Vec3(-Unit, -Unit, -2 * Unit),
                upperLeft |-> Vec3(-Unit, Unit, -2 * Unit),
                upperRight |-> Vec3(Unit, Unit, -2 * Unit)],
     mPosition |-> << 0, 0 >>,
     mSize |-> << Unit, Unit >>]

(* glm::degrees(atanf(t)) for a fixed-point t >= 0: the inverse of the
   tabulated tangent; above the table atan t = 90 - atan (1 / t) *)
RECURSIVE AtanIndex(_, _)
AtanIndex(t, k) == IF k < 16 /\ TanTable[k + 2] <= t THEN AtanIndex(t, k + 1) ELSE k
AtanLow(t) ==
    LET k == AtanIndex(t, 0)
        lo == TanTable[k + 1]
        hi == TanTable[k + 2]
    IN  5 * Unit * k + CDiv(5 * Unit * (t - lo), hi - lo)
AtanDeg(t) ==
    IF t <= TanTable[18] THEN AtanLow(t) ELSE 90 * Unit - AtanLow(FDiv(Unit, t))

(* A float result: a finite value, or the NaN of 0 / 0 *)
Finite(v) == [nan |-> FALSE, deg |-> v]
NaN == [nan |-> TRUE, deg |-> 0]

(* lines 216-221.  The quotient xDist / zDist is an IEEE division: with
   zDist = 0 it is an infinity (atanf gives 90 degrees) or, when xDist = 0
   as well, a NaN; nothing is thrown *)
getHorizontalFieldOfViewDegrees(vp) ==
    LET xDist == CDiv(vp.plane.upperRight[1] - vp.plane.upperLeft[1], 2)
        zDist == vp.plane.upperRight[3]
    IN  IF zDist = 0
        THEN IF xDist = 0 THEN NaN ELSE Finite(2 * 90 * Unit)
        ELSE Finite(2 * AtanDeg(FDiv(Abs(xDist), Abs(zDist))))

(* lines 223-238.  With zDist = 0 the vertical angle is atanf(0 / 0), a NaN
   that setViewPlaneCoordsUsingFOVs spreads over the plane: the result is then
   reported as nan and the viewport is left as it was *)
setHorizontalFieldOfView(vp, horizFovDeg, aspectRatio) ==
    LET zDist == vp.plane.upperRight[3]
        dimsX == FMul(Abs(zDist), TanDeg(CDiv(horizFovDeg, 2)))
        dimsY == FDiv(dimsX, aspectRatio)
        verticalAngle == AtanDeg(FDiv(dimsY, Abs(zDist)))
    IN  IF zDist = 0
        THEN [nan |-> TRUE, vp |-> vp]
        ELSE [nan |-> FALSE,
              vp |-> setViewPlaneCoordsUsingFOVs(
                         vp, verticalAngle, -verticalAngle,
                         -CDiv(horizFovDeg, 2), CDiv(horizFovDeg, 2),
                         vp.mRot, Abs(zDist))]

----------------------------------------------------------------------------
(* sciss.cpp *)

(* A file is its first bytes (magic and version, at most four) followed by
   32-bit words; fread returns the number of complete items it could read. *)
NoFile == [exists |-> FALSE, head |-> << >>, words |-> << >>]

Fread(words, pos, itemWords, count) ==
    Min(count, (Len(words) - pos) \div itemWords)

ScissError(code, msg) == [component |-> "SCISS", code |-> code, msg |-> msg]
RuntimeError(msg) == [component |-> "std::runtime_error", code |-> 0, msg |-> msg]

ScissThrow(section, err, vp) ==
    [loader |-> "sciss", status |-> "throw", section |-> section, error |-> err,
     fileVersion |-> -1, size |-> << 0, 0 >>,
     vertices |-> << >>, indices |-> << >>, geometryType |-> "none", parent |-> vp]

Clamp01_NoClamp(v) == v
Clamp01(v) == Min(Max(v, 0), Unit)

(* SCISSViewData: qx qy qz qw  x y z  fovUp fovDown fovLeft fovRight *)
ViewDataOf(w, pos) ==
    LET f(i) == w[pos + i]
    IN  [qx |-> f(1), qy |-> f(2), qz |-> f(3), qw |-> f(4),
         x |-> f(5), y |-> f(6), z |-> f(7),
         fovUp |-> f(8), fovDown |-> f(9), fovLeft |-> f(10), fovRight |-> f(11)]

(* SCISSTexturedVertex number i (0-based) of the vertex array at word vpos *)
TexturedVertexOf(w, vpos, i) ==
    LET f(k) == w[vpos + 6 * i + k]
    IN  [x |-> f(1), y |-> f(2), z |-> f(3), tx |-> f(4), ty |-> f(5), tz |-> f(6)]

(* the number of vertices announced by the descriptor (lines 133-143) *)
ScissVertexCount_AlwaysProduct(fileVersion, size) == size[1] * size[2]
ScissVertexCount(fileVersion, size) ==
    IF fileVersion = 2 THEN size[2] ELSE size[1] * size[2]

(* the primitive topology (lines 216-225); 50 is the character '2' *)
ScissGeometryType(fileVersion, size) ==
    IF fileVersion = 50 /\ size[1] = 4 THEN "GL_TRIANGLES"
    ELSE IF fileVersion = 50 /\ size[1] = 5 THEN "GL_TRIANGLE_STRIP"
    ELSE "GL_TRIANGLE_STRIP"

(* lines 191-214: clamp and convert one vertex to viewport coordinates *)
ScissVertex(sv, vp) ==
    LET x == Clamp01(sv.x)
        y == Clamp01(sv.y)
        tx == Clamp01(sv.tx)
        ty == Clamp01(sv.ty)
        s == vp.mSize
        p == vp.mPosition
    IN  [x |-> 2 * (FMul(x, s[1]) + p[1]) - Unit,
         y |-> 2 * (FMul(Unit - y, s[2]) + p[2]) - Unit,
         s |-> FMul(tx, s[1]) + p[1],
         t |-> FMul(ty, s[2]) + p[2],
         r |-> Unit, g |-> Unit, b |-> Unit, a |-> Unit]

(* lines 179-187: the view metadata applied to the owning viewport *)
ScissApplyView(vp, viewData) ==
    setViewPlaneCoordsUsingFOVs(
        [vp EXCEPT !.userPos = Vec3(viewData.x, viewData.y, viewData.z)],
        viewData.fovUp, viewData.fovDown, viewData.fovLeft, viewData.fovRight,
        [w |-> viewData.qw, x |-> viewData.qx, y |-> viewData.qy, z |-> viewData.qz],
        DefaultDist)

(* the error thrown when the descriptor cannot be read (line 130) *)
ScissDescriptorError_AsVertices == ScissError(2018, "Error parsing vertices from file")
ScissDescriptorError == RuntimeError("Error parsing file")

(* variant applying the view metadata before the index sections are read *)
ScissTail_EarlyApply(file, vp, fileVersion, viewData, size, nVertices, vpos) ==
    LET w == file.words
        ipos == vpos + 6 * nVertices
        retIndices == Fread(w, ipos, 1, 1)
        nIndices == w[ipos + 1]
        r == Fread(w, ipos + 1, 1, nIndices)
        vp2 == ScissApplyView(vp, viewData)
    IN  IF retIndices # 1
        THEN ScissThrow("indexCount", ScissError(2019, "Error parsing indices from file"), vp2)
        ELSE IF nIndices > 0 /\ r # nIndices
        THEN ScissThrow("indices", ScissError(2020, "Error parsing faces from file"), vp2)
        ELSE [loader |-> "sciss", status |-> "ok", section |-> "none",
              error |-> ScissError(0, ""),
              fileVersion |-> fileVersion, size |-> size,
              vertices |-> [i \in 1..nVertices |->
                               ScissVertex(TexturedVertexOf(w, vpos, i - 1), vp2)],
              indices |-> [i \in 1..nIndices |-> w[ipos + 1 + i]],
              geometryType |-> ScissGeometryType(fileVersion, size),
              parent |-> vp2]

(* lines 157-228: index count, indices, side effects on the viewport, result *)
ScissTail(file, vp, fileVersion, viewData, size, nVertices, vpos) ==
    LET w == file.words
        ipos == vpos + 6 * nVertices
        retIndices == Fread(w, ipos, 1, 1)
        nIndices == w[ipos + 1]
        r == Fread(w, ipos + 1, 1, nIndices)
        vp2 == ScissApplyView(vp, viewData)
    IN  IF retIndices # 1
        THEN ScissThrow("indexCount", ScissError(2019, "Error parsing indices from file"), vp)
        ELSE IF nIndices > 0 /\ r # nIndices
        THEN ScissThrow("indices", ScissError(2020, "Error parsing faces from file"), vp)
        ELSE [loader |-> "sciss", status |-> "ok", section |-> "none",
              error |-> ScissError(0, ""),
              fileVersion |-> fileVersion, size |-> size,
              vertices |-> [i \in 1..nVertices |->
                               ScissVertex(TexturedVertexOf(w, vpos, i - 1), vp2)],
              indices |-> [i \in 1..nIndices |-> w[ipos + 1 + i]],
              geometryType |-> ScissGeometryType(fileVersion, size),
              parent |-> vp2]

(* lines 55-155: magic, version, mapping type, view data, descriptor, vertices *)
generateScissMesh(file, vp) ==
    LET h == file.head
        w == file.words
        retHeader == Min(3, Len(h))
        retVer == Min(1, Len(h) - retHeader)
        retType == Fread(w, 0, 1, 1)
        retData == Fread(w, 1, 11, 1)
        retSize == Fread(w, 12, 1, 2)
        fileVersion == h[4]
        size == << w[13], w[14] >>
        nVertices == ScissVertexCount(fileVersion, size)
        retVertices == Fread(w, 14, 6, nVertices)
    IN  IF ~file.exists
        THEN ScissThrow("open", ScissError(2013, "Failed to open"), vp)
        ELSE IF retHeader # 3 \/ h[1] # 83 \/ h[2] # 71 \/ h[3] # 67
        THEN ScissThrow("magic", ScissError(2014, "Incorrect file id"), vp)
        ELSE IF retVer # 1
        THEN ScissThrow("version",
                        ScissError(2015, "Error parsing file version from file"), vp)
        ELSE IF retType # 1
        THEN ScissThrow("type", ScissError(2016, "Error parsing type from file"), vp)
        ELSE IF retData # 1
        THEN ScissThrow("viewData",
                        ScissError(2017, "Error parsing view data from file"), vp)
        ELSE IF retSize # 2
        THEN ScissThrow("descriptor", ScissDescriptorError, vp)
        ELSE IF retVertices # nVertices
        THEN ScissThrow("vertices",
                        ScissError(2018, "Error parsing vertices from file"), vp)
        ELSE ScissTail(file, vp, fileVersion, ViewDataOf(w, 1), size, nVertices, 14)

----------------------------------------------------------------------------
(* SharedStateChannel (spec 4.1): values are appended to the frame buffer in
   call order and read back at a cursor that advances by the encoded width.
   A double is the fixed-point value in the low word, sign-extended to
   eight bytes. *)

SignWord(v) == IF v < 0 THEN -1 ELSE 0
Word(data, pos) == readMeshBuffer(data, pos)

(* a double whose upper word is not the sign extension of the lower one is
   outside the range of the model *)
OutOfRangeDouble == -(2 ^ 30)

serializeDouble(data, v) == data \o WordBytes(v) \o WordBytes(SignWord(v))
serializeBool(data, v) == data \o << IF v THEN 1 ELSE 0 >>
serializeInt32(data, v) == data \o WordBytes(v)

deserializeDouble(data, pos) ==
    LET lo == Word(data, pos)
        hi == Word(data, pos + 4)
    IN  [val |-> IF hi = SignWord(lo) THEN lo ELSE OutOfRangeDouble, pos |-> pos + 8]
deserializeBool(data, pos) == [val |-> ByteAt(data, pos) # 0, pos |-> pos + 1]
deserializeInt32(data, pos) == [val |-> Word(data, pos), pos |-> pos + 4]

----------------------------------------------------------------------------
(* apps/datatransfer/main.cpp : globals of one process and its callbacks *)

Chars(str) ==
    CASE str = ".jpg" -> << 46, 106, 112, 103 >>
      [] str = ".jpeg" -> << 46, 106, 112, 101, 103 >>
      [] str = ".png" -> << 46, 112, 110, 103 >>
      [] str = "a.jpg" -> << 97, 46, 106, 112, 103 >>
      [] str = "b.png" -> << 98, 46, 112, 110, 103 >>
      [] str = "C.JPG" -> << 67, 46, 74, 80, 71 >>
      [] str = "d.txt" -> << 100, 46, 116, 120, 116 >>
      [] str = "e.jpeg" -> << 101, 46, 106, 112, 101, 103 >>

(* std::string::find(needle) != npos *)
Contains(hay, needle) ==
    \E i \in 1..(Len(hay) - Len(needle) + 1) :
        SubSeq(hay, i, i + Len(needle) - 1) = needle

(* the lambda of the std::transform in dropCallback: static_cast<char>(c) *)
DropTransformChar(c) == c

Paths == {"a.jpg", "b.png", "C.JPG", "d.txt", "e.jpeg"}
(* what is found at a path: a picture, bytes that are not a picture, or no
   file that can be opened *)
FileOf(path) ==
    CASE path = "a.jpg" -> "image"
      [] path = "b.png" -> "corrupt"
      [] OTHER -> "missing"

DtGlobals ==
    [currentTime |-> 0, stats |-> FALSE, texIndex |-> -1,
     currentPackage |-> -1, transfer |-> FALSE,
     serverUploadDone |-> FALSE, clientsUploadDone |-> FALSE,
     imagePaths |-> << >>, texIds |-> << >>, transImg |-> "null",
     counter |-> 0, statsGraph |-> FALSE]

dt_preSyncFun_KeepsFlags(g, isMaster, now) ==
    IF isMaster
    THEN LET g1 == [g EXCEPT !.currentTime = now]
         IN  IF g1.serverUploadDone /\ g1.clientsUploadDone
             THEN [g1 EXCEPT !.texIndex = @ + 1]
             ELSE g1
    ELSE g
dt_preSyncFun(g, isMaster, now) ==
    IF isMaster
    THEN LET g1 == [g EXCEPT !.currentTime = now]
         IN  IF g1.serverUploadDone /\ g1.clientsUploadDone
             THEN [g1 EXCEPT !.texIndex = @ + 1,
                             !.serverUploadDone = FALSE,
                             !.clientsUploadDone = FALSE]
             ELSE g1
    ELSE g

dt_postSyncPreDrawFun(g) == [g EXCEPT !.statsGraph = g.stats]

dt_encodeFun(g) ==
    serializeInt32(serializeBool(serializeDouble(<< >>, g.currentTime), g.stats),
                   g.texIndex)

(* returns the globals after decoding and the final cursor *)
dt_decodeFun_StatsFirst(g, data, pos) ==
    LET b == deserializeBool(data, pos)
        a == deserializeDouble(data, b.pos)
        c == deserializeInt32(data, a.pos)
    IN  [g |-> [g EXCEPT !.currentTime = a.val, !.stats = b.val, !.texIndex = c.val],
         pos |-> c.pos]
dt_decodeFun(g, data, pos) ==
    LET a == deserializeDouble(data, pos)
        b == deserializeBool(data, a.pos)
        c == deserializeInt32(data, b.pos)
    IN  [g |-> [g EXCEPT !.currentTime = a.val, !.stats = b.val, !.texIndex = c.val],
         pos |-> c.pos]

(* key is "Esc", "S" or "other"; action is "Press" or "Release".  The
   result also tells whether Engine::terminate was called. *)
dt_keyCallback_AnyNode(g, isMaster, key, action) ==
    IF action = "Press"
    THEN CASE key = "Esc" -> [g |-> g, terminate |-> TRUE]
           [] key = "S" -> [g |-> [g EXCEPT !.stats = ~g.stats], terminate |-> FALSE]
           [] OTHER -> [g |-> g, terminate |-> FALSE]
    ELSE [g |-> g, terminate |-> FALSE]
dt_keyCallback(g, isMaster, key, action) ==
    IF isMaster /\ action = "Press"
    THEN CASE key = "Esc" -> [g |-> g, terminate |-> TRUE]
           [] key = "S" -> [g |-> [g EXCEPT !.stats = ~g.stats], terminate |-> FALSE]
           [] OTHER -> [g |-> g, terminate |-> FALSE]
    ELSE [g |-> g, terminate |-> FALSE]

dt_dropCallback(g, isMaster, path) ==
    IF ~isMaster
    THEN g
    ELSE LET tmpStr == [i \in 1..Len(Chars(path)) |-> DropTransformChar(Chars(path)[i])]
             foundJpg == Contains(tmpStr, Chars(".jpg"))
             foundJpeg == Contains(tmpStr, Chars(".jpeg"))
             foundPng == Contains(tmpStr, Chars(".png"))
         IN  IF foundJpg \/ foundJpeg \/ foundPng
             THEN [g EXCEPT !.imagePaths = Append(@, path), !.transfer = TRUE]
             ELSE g

(* readImage: Image::load throws on bytes that are not a picture *)
dt_readImage(g, content) ==
    [g EXCEPT !.transImg = IF content = "image" THEN "img" ELSE "null"]

(* uploadTexture: a new texture name, or 0 after an invalid load *)
dt_uploadTexture_SkipsInvalid(g) ==
    IF g.transImg = "null"
    THEN g
    ELSE [g EXCEPT !.texIds = Append(@, Len(@) + 1), !.transImg = "null"]
dt_uploadTexture(g) ==
    IF g.transImg = "null"
    THEN [g EXCEPT !.texIds = Append(@, 0)]
    ELSE [g EXCEPT !.texIds = Append(@, Len(@) + 1), !.transImg = "null"]

(* startDataTransfer: the globals afterwards, the package handed to
   NetworkManager::transferData (-1 if none), and whether the thread ended
   with an exception: tellg() of a stream that did not open is -1, and a
   std::vector of that size cannot be constructed *)
dt_startDataTransfer(g) ==
    LET id == g.currentPackage + 1
        g1 == [g EXCEPT !.currentPackage = id]
    IN  IF Len(g1.imagePaths) <= id
        THEN [g |-> g1, sent |-> -1, abort |-> FALSE]
        ELSE LET content == FileOf(g1.imagePaths[id + 1])
             IN  IF content = "missing"
                 THEN [g |-> g1, sent |-> -1, abort |-> TRUE]
                 ELSE [g |-> dt_readImage(g1, content), sent |-> id, abort |-> FALSE]

dt_dataTransferDecoder(g, packageId, content) ==
    dt_uploadTexture(dt_readImage([g EXCEPT !.currentPackage = packageId], content))

dt_dataTransferAcknowledge(g, packageId, numberOfNodes) ==
    IF packageId = g.currentPackage
    THEN IF g.counter + 1 = numberOfNodes - 1
         THEN [g EXCEPT !.counter = 0, !.clientsUploadDone = TRUE]
         ELSE [g EXCEPT !.counter = @ + 1]
    ELSE g

(* what drawFun reads: the time and the texture it binds *)
dt_drawFun(g) ==
    [currentTime |-> g.currentTime,
     texIndex |-> g.texIndex,
     inRange |-> g.texIndex = -1 \/ (g.texIndex >= 0 /\ g.texIndex < Len(g.texIds))]

----------------------------------------------------------------------------
(* apps/spout/main.cpp and apps/spoutsender/main.cpp *)

SpoutGlobals == [currentTime |-> 0]

spout_preSyncFun(g, isMaster, now) ==
    IF isMaster THEN [g EXCEPT !.currentTime = now] ELSE g
spout_encodeFun(g) == serializeDouble(<< >>, g.currentTime)
spout_decodeFun(g, data, pos) ==
    LET a == deserializeDouble(data, pos)
    IN  [g |-> [g EXCEPT !.currentTime = a.val], pos |-> a.pos]
(* apps/spout keyCallback: Esc terminates on whichever node it is pressed *)
spout_keyCallback(g, isMaster, key, action) ==
    [g |-> g, terminate |-> key = "Esc" /\ action = "Press"]

----------------------------------------------------------------------------
(* apps/simplenavigation/main.cpp.  The pan angle is counted in quarter
   turns and positions in walking steps (WalkingSpeed * dt = 1); the
   transform xform is represented by the pan and the position it is built
   from, and is serialised as three words. *)

NavGlobals ==
    [buttonForward |-> FALSE, buttonBackward |-> FALSE,
     buttonLeft |-> FALSE, buttonRight |-> FALSE,
     mouseLeftButton |-> FALSE, mouseDx |-> 0, mouseXPos |-> << 0, 0 >>,
     panRot |-> 0, pos |-> << 0, 0 >>,
     xform |-> [pan |-> 0, x |-> 0, z |-> 0]]

(* view = inverse(rotate(panRot, Y)) * (0,0,1), as (x, z); right = cross(view, up) *)
NavView(panRot) ==
    CASE panRot % 4 = 0 -> << 0, 1 >>
      [] panRot % 4 = 1 -> << -1, 0 >>
      [] panRot % 4 = 2 -> << 0, -1 >>
      [] OTHER -> << 1, 0 >>
NavRight(view) == << -view[2], view[1] >>

nav_preSyncFun(g, isMaster, mouseX) ==
    IF ~isMaster
    THEN g
    ELSE LET g1 == IF g.mouseLeftButton
                   THEN [g EXCEPT !.mouseXPos[1] = mouseX,
                                  !.mouseDx = mouseX - g.mouseXPos[2]]
                   ELSE [g EXCEPT !.mouseDx = 0]
             panRot == g1.panRot + g1.mouseDx
             view == NavView(panRot)
             right == NavRight(view)
             step(p, on, sign, dir) ==
                 IF on THEN << p[1] + sign * dir[1], p[2] + sign * dir[2] >> ELSE p
             p1 == step(g1.pos, g1.buttonForward, 1, view)
             p2 == step(p1, g1.buttonBackward, -1, view)
             p3 == step(p2, g1.buttonLeft, -1, right)
             p4 == step(p3, g1.buttonRight, 1, right)
         IN  [g1 EXCEPT !.panRot = panRot, !.pos = p4,
                        !.xform = [pan |-> panRot, x |-> p4[1], z |-> p4[2]]]

nav_encodeFun(g) ==
    serializeInt32(serializeInt32(serializeInt32(<< >>, g.xform.pan), g.xform.x),
                   g.xform.z)
nav_decodeFun(g, data, pos) ==
    LET a == deserializeInt32(data, pos)
        b == deserializeInt32(data, a.pos)
        c == deserializeInt32(data, b.pos)
    IN  [g |-> [g EXCEPT !.xform = [pan |-> a.val, x |-> b.val, z |-> c.val]],
         pos |-> c.pos]

(* key is "W" (or Up), "S" (Down), "A" (Left), "D" (Right) or "other" *)
nav_keyCallback(g, isMaster, key, action) ==
    LET down == action \in {"Repeat", "Press"}
        g1 == IF ~isMaster THEN g
              ELSE CASE key = "W" -> [g EXCEPT !.buttonForward = down]
                     [] key = "S" -> [g EXCEPT !.buttonBackward = down]
                     [] key = "A" -> [g EXCEPT !.buttonLeft = down]
                     [] key = "D" -> [g EXCEPT !.buttonRight = down]
                     [] OTHER -> g
    IN  [g |-> g1, terminate |-> FALSE]

nav_mouseButtonCallback(g, isMaster, button, action, mouseX) ==
    IF isMaster /\ button = "Left"
    THEN [g EXCEPT !.mouseLeftButton = (action = "Press"), !.mouseXPos[2] = mouseX]
    ELSE g

----------------------------------------------------------------------------
(* Inputs: Format A buffers *)

PF == << 80, 70 >>
MpcdiTags == {PF, << 80, 102 >>, << 88, 88 >>}
CorrValues == {0, Unit \div 4}

MpcdiHeader(tag, cols, rows, pad) ==
    tag \o << NL >> \o Digits(cols) \o << 32 >> \o Digits(rows) \o << NL >>
        \o Repeat(<< 32 >>, pad) \o << 45, 49, 46, 48 >> \o << NL >>

MpcdiBuffer(m) ==
    MpcdiHeader(m.tag, m.cols, m.rows, m.pad)
        \o Repeat(FloatBytes(m.corr) \o FloatBytes(m.corr) \o FloatBytes(0), m.triplets)

(* buffers with a three-line header *)
MpcdiHeaderMetas ==
    [kind : {"header"}, tag : MpcdiTags, cols : 2..MaxCols, rows : 2..MaxRows,
     pad : {k * PadStep : k \in 0..MaxPad}, corr : CorrValues,
     triplets : 0..(MaxCols * MaxRows + 1)]

(* buffers of `len` bytes holding `newlines` (< 3) newline characters *)
MpcdiRawMetas ==
    [kind : {"raw"}, newlines : 0..2,
     len : {2, MaxHeaderLineLength - 1, MaxHeaderLineLength,
            MaxHeaderLineLength + 1, 2 * MaxHeaderLineLength}]

MpcdiRawBuffer(m) == Repeat(<< NL >>, m.newlines) \o Repeat(<< 65 >>, m.len - m.newlines)

MpcdiMetas == MpcdiHeaderMetas \cup MpcdiRawMetas
MpcdiInput(m) == IF m.kind = "header" THEN MpcdiBuffer(m) ELSE MpcdiRawBuffer(m)

(* Inputs: Format B files *)

ScissVersions == {1, 2, 50}
ScissDescs == {<< 1, 1 >>, << 2, 2 >>, << 4, 3 >>, << 5, 2 >>}
ScissBigDescs == {<< 4, 100 >>, << 10, 10 >>}
ScissViews ==
    { [qx |-> 0, qy |-> 0, qz |-> 0, qw |-> Unit, x |-> 0, y |-> 0, z |-> 0,
       fovUp |-> 20 * Unit, fovDown |-> -20 * Unit,
       fovLeft |-> -20 * Unit, fovRight |-> 20 * Unit],
      [qx |-> 0, qy |-> Unit, qz |-> 0, qw |-> 0,
       x |-> Unit, y |-> 2 * Unit, z |-> 3 * Unit,
       fovUp |-> 45 * Unit, fovDown |-> -45 * Unit,
       fovLeft |-> -30 * Unit, fovRight |-> 30 * Unit] }
ScissSections ==
    {"magic", "version", "type", "viewData", "descriptor", "vertices",
     "indexCount", "indices"}
CoordCycle == << 0, Unit \div 2, Unit, -(Unit \div 4), Unit + Unit \div 2 >>
Coord(i) == CoordCycle[(i % 5) + 1]

ScissMetas ==
    [version : ScissVersions, size : ScissDescs, view : ScissViews,
     idx : {"none", "valid", "bad"},
     cut : ScissSections \cup {"full", "badMagic", "partialDescriptor", "partialVertex"}]
    \cup
    [version : {1, 2}, size : ScissBigDescs, view : {CHOOSE v \in ScissViews : v.qw = Unit},
     idx : {"valid"}, cut : {"full"}]

MetaVertexCount(m) == IF m.version = 2 THEN m.size[2] ELSE m.size[1] * m.size[2]
MetaIndexCount(m) == IF m.idx = "none" THEN 0 ELSE MaxIndices

ScissAllWords(m) ==
    LET nV == MetaVertexCount(m)
        v == m.view
        vert(i) == << Coord(i), Coord(i + 1), 0,
                      Coord(i + 2), Coord(i + 3), 0 >>
        verts == [j \in 1..(6 * nV) |-> vert((j - 1) \div 6)[((j - 1) % 6) + 1]]
        index(i) == IF m.idx = "valid" /\ nV > 0 THEN i % nV ELSE nV + i
    IN  << 0 >>
        \o << v.qx, v.qy, v.qz, v.qw, v.x, v.y, v.z,
              v.fovUp, v.fovDown, v.fovLeft, v.fovRight >>
        \o << m.size[1], m.size[2] >>
        \o verts
        \o << MetaIndexCount(m) >>
        \o [i \in 1..MetaIndexCount(m) |-> index(i - 1)]

(* the number of words kept when the file is cut short in section m.cut *)
ScissKeep(m) ==
    LET nV == MetaVertexCount(m)
        all == 15 + 6 * nV + MetaIndexCount(m)
    IN  CASE m.cut \in {"magic", "version", "type", "badMagic"} -> 0
          [] m.cut = "viewData" -> 6
          [] m.cut = "descriptor" -> 12
          [] m.cut = "partialDescriptor" -> 13
          [] m.cut = "vertices" -> 14 + 6 * (nV - 1)
          [] m.cut = "partialVertex" -> 14 + 6 * nV - 1
          [] m.cut = "indexCount" -> 14 + 6 * nV
          [] m.cut = "indices" -> all - 1
          [] OTHER -> all

(* cuts that the file's own shape makes impossible *)
ScissMetaOk(m) ==
    /\ m.cut \in {"vertices", "partialVertex"} => MetaVertexCount(m) > 0
    /\ m.cut = "indices" => MetaIndexCount(m) > 0

ScissInput(m) ==
    [exists |-> TRUE,
     head |-> CASE m.cut = "magic" -> << 83, 71 >>
                [] m.cut = "version" -> << 83, 71, 67 >>
                [] m.cut = "badMagic" -> << 83, 71, 88, m.version >>
                [] OTHER -> << 83, 71, 67, m.version >>,
     words |-> SubSeq(ScissAllWords(m), 1, ScissKeep(m))]

(* Viewport rectangles and planar projections a configuration may give *)
ViewportConfigs ==
    { [position |-> << 0, 0 >>, size |-> << Unit, Unit >>, planar |-> FALSE],
      [position |-> << Unit \div 2, 0 >>, size |-> << Unit \div 2, Unit >>, planar |-> FALSE],
      [position |-> << 0, 0 >>, size |-> << Unit, Unit >>, planar |-> TRUE],
      [position |-> << Unit \div 2, 0 >>, size |-> << Unit, Unit >>, planar |-> FALSE] }

----------------------------------------------------------------------------
(* viewport.cpp : configuration and loadData *)

NoMeta == [kind |-> "none"]

InitMesh ==
    /\ mpcdiWarpMesh = << >>
    /\ meshFile = NoFile
    /\ meshMeta = NoMeta
    /\ meshOut = NoOut
    /\ parent = InitViewport
    /\ parentBefore = InitViewport
    /\ ClusterOff /\ WindowOff /\ SwapOff /\ FovOff /\ MsgOff /\ LateOff

Unconfigured == mpcdiWarpMesh = << >> /\ ~meshFile.exists /\ meshOut = NoOut

(* Viewport::setMpcdiWarpMesh *)
SetMpcdiWarpMesh ==
    /\ Unconfigured
    /\ \E m \in MpcdiMetas :
          /\ mpcdiWarpMesh' = MpcdiInput(m)
          /\ meshMeta' = m
    /\ UNCHANGED <<meshFile, meshOut, parent, parentBefore>>

(* Viewport::applyViewport: mesh file name, position, size, planar projection *)
applyPlanarProjection(vp) ==
    setViewPlaneCoordsUsingFOVs(vp, 30 * Unit, -30 * Unit, -40 * Unit, 40 * Unit,
                                QuatIdentity, DefaultDist)

ApplyViewport ==
    /\ Unconfigured
    /\ \E m \in ScissMetas, c \in ViewportConfigs :
          /\ ScissMetaOk(m)
          /\ meshFile' = ScissInput(m)
          /\ meshMeta' = [kind |-> "sciss", m |-> m]
          /\ parent' = LET vp == [parent EXCEPT !.mPosition = c.position,
                                                !.mSize = c.size]
                       IN  IF c.planar THEN applyPlanarProjection(vp) ELSE vp
    /\ UNCHANGED <<mpcdiWarpMesh, meshOut, parentBefore>>

(* Viewport::loadData with an inline MPCDI warp mesh *)
LoadDataMpcdi ==
    /\ meshOut = NoOut
    /\ mpcdiWarpMesh # << >>
    /\ \E r \in generateMpcdiMesh(mpcdiWarpMesh) : meshOut' = r
    /\ parentBefore' = parent
    /\ UNCHANGED <<mpcdiWarpMesh, meshFile, meshMeta, parent>>

(* Viewport::loadData with a mesh file (SCISS hint) *)
LoadDataSciss ==
    /\ meshOut = NoOut
    /\ mpcdiWarpMesh = << >>
    /\ meshFile.exists
    /\ LET r == generateScissMesh(meshFile, parent)
       IN  /\ meshOut' = [f \in (DOMAIN r) \ {"parent"} |-> r[f]]
           /\ parent' = r.parent
    /\ parentBefore' = parent
    /\ UNCHANGED <<mpcdiWarpMesh, meshFile, meshMeta>>

NextMesh ==
    \/ SetMpcdiWarpMesh /\ UNCHANGED notMesh
    \/ ApplyViewport /\ UNCHANGED notMesh
    \/ LoadDataMpcdi /\ UNCHANGED notMesh
    \/ LoadDataSciss /\ UNCHANGED notMesh

SpecMesh == InitMesh /\ [][NextMesh]_vars

----------------------------------------------------------------------------
(* The cluster: the engine's frame loop (spec 4.2) driving the callbacks *)

Apps == {"datatransfer", "simplenavigation", "spout", "spoutsender"}
Nodes == {0, 1}
Master == 0
Clients == Nodes \ {Master}
numberOfNodes == Cardinality(Nodes)
isMaster(n) == n = Master
(* an exception that leaves the loader thread ends the master process *)
Alive(n) == ~(n = Master /\ loaderPc = "aborted")

RECURSIVE SumOver(_, _)
SumOver(f, S) ==
    IF S = {} THEN 0
    ELSE LET n == CHOOSE x \in S : TRUE IN f[n] + SumOver(f, S \ {n})
EventCount == SumOver(events, Nodes)

Keys == {"Esc", "S", "W", "A", "D", "other"}
KeyActions == {"Press", "Release", "Repeat"}
MouseXs == {0, 1}

Globals(a) ==
    CASE a = "datatransfer" -> DtGlobals
      [] a = "simplenavigation" -> NavGlobals
      [] OTHER -> SpoutGlobals

(* the variables an application shares across the cluster *)
SharedOf(a, gl) ==
    CASE a = "datatransfer" -> << gl.currentTime, gl.stats, gl.texIndex >>
      [] a = "simplenavigation" -> << gl.xform >>
      [] OTHER -> << gl.currentTime >>

(* Engine::getTime(): a clock that advances with every frame *)
getTime == frame + 1

PreSyncFun(a, gl, master, mouseX) ==
    CASE a = "datatransfer" -> dt_preSyncFun(gl, master, getTime)
      [] a = "simplenavigation" -> nav_preSyncFun(gl, master, mouseX)
      [] OTHER -> spout_preSyncFun(gl, master, getTime)
EncodeFun(a, gl) ==
    CASE a = "datatransfer" -> dt_encodeFun(gl)
      [] a = "simplenavigation" -> nav_encodeFun(gl)
      [] OTHER -> spout_encodeFun(gl)
DecodeFun(a, gl, data, pos) ==
    CASE a = "datatransfer" -> dt_decodeFun(gl, data, pos)
      [] a = "simplenavigation" -> nav_decodeFun(gl, data, pos)
      [] OTHER -> spout_decodeFun(gl, data, pos)
KeyCallbackFun(a, gl, master, key, action) ==
    CASE a = "datatransfer" -> dt_keyCallback(gl, master, key, action)
      [] a = "simplenavigation" -> nav_keyCallback(gl, master, key, action)
      [] a = "spout" -> spout_keyCallback(gl, master, key, action)
      [] OTHER -> [g |-> gl, terminate |-> FALSE]
(* the synchronised values read by postSyncPreDraw and draw *)
DrawReads(a, gl) ==
    CASE a = "datatransfer" ->
             << dt_drawFun(gl).currentTime, gl.statsGraph, dt_drawFun(gl).texIndex >>
      [] a = "simplenavigation" -> << gl.xform >>
      [] OTHER -> << gl.currentTime >>

MeshOff ==
    /\ mpcdiWarpMesh = << >> /\ meshFile = NoFile /\ meshMeta = NoMeta
    /\ meshOut = NoOut /\ parent = InitViewport /\ parentBefore = InitViewport

InitCluster ==
    /\ app \in Apps
    /\ phase = [n \in Nodes |-> "Idle"]
    /\ frame = 0
    /\ globals = [n \in Nodes |-> Globals(app)]
    /\ inbox = [n \in Nodes |-> << >>]
    /\ wire = << >>
    /\ encoded = [frame |-> -1, vals |-> << >>]
    /\ decodePos = [n \in Nodes |-> 0]
    /\ used = [n \in Nodes |-> << >>]
    /\ events = [n \in Nodes |-> 0]
    /\ terminated = [n \in Nodes |-> FALSE]
    /\ loaderPc = IF app = "datatransfer" THEN "check" ELSE "off"
    /\ packages = [n \in Nodes |-> << >>]
    /\ acks = << >>
    /\ MeshOff /\ WindowOff /\ SwapOff /\ FovOff /\ MsgOff /\ LateOff

dtVars == <<loaderPc, packages, acks>>
syncVars == <<inbox, wire, encoded, decodePos, used>>

(* Idle -> PreSync *)
EnginePreSync(n) ==
    /\ phase[n] = "Idle" /\ ~terminated[n] /\ frame < MaxFrames /\ Alive(n)
    /\ \E mouseX \in MouseXs :
          globals' = [globals EXCEPT ![n] = PreSyncFun(app, globals[n], isMaster(n), mouseX)]
    /\ phase' = [phase EXCEPT ![n] = "PreSync"]
    /\ UNCHANGED <<app, events, frame, terminated, syncVars, dtVars>>

(* PreSync -> Encode -> Transmit, on the master *)
EngineEncode ==
    /\ phase[Master] = "PreSync" /\ Alive(Master)
    /\ wire' = EncodeFun(app, globals[Master])
    /\ inbox' = [n \in Nodes |-> IF n \in Clients THEN wire' ELSE << >>]
    /\ encoded' = [frame |-> frame, vals |-> SharedOf(app, globals[Master])]
    /\ phase' = [phase EXCEPT ![Master] = "Sync"]
    /\ UNCHANGED <<app, events, frame, globals, decodePos, used, terminated, dtVars>>

(* Transmit -> Decode, on a client *)
EngineDecode(n) ==
    /\ n \in Clients /\ phase[n] = "PreSync" /\ inbox[n] # << >>
    /\ LET r == DecodeFun(app, globals[n], inbox[n], 0)
       IN  /\ globals' = [globals EXCEPT ![n] = r.g]
           /\ decodePos' = [decodePos EXCEPT ![n] = r.pos]
    /\ inbox' = [inbox EXCEPT ![n] = << >>]
    /\ phase' = [phase EXCEPT ![n] = "Sync"]
    /\ UNCHANGED <<app, events, frame, wire, encoded, used, terminated, dtVars>>

EnginePostSyncPreDraw(n) ==
    /\ phase[n] = "Sync" /\ Alive(n)
    /\ globals' = [globals EXCEPT ![n] = IF app = "datatransfer"
                              THEN dt_postSyncPreDrawFun(globals[n]) ELSE globals[n]]
    /\ phase' = [phase EXCEPT ![n] = "PostSync"]
    /\ UNCHANGED <<app, events, frame, terminated, syncVars, dtVars>>

(* Decode -> Render *)
EngineDraw(n) ==
    /\ phase[n] = "PostSync" /\ Alive(n)
    /\ used' = [used EXCEPT ![n] = DrawReads(app, globals[n])]
    /\ phase' = [phase EXCEPT ![n] = "Draw"]
    /\ UNCHANGED <<app, events, frame, globals, inbox, wire, encoded, decodePos, terminated, dtVars>>

(* SwapReady -> SwapBarrierWait -> Idle: all nodes swap together *)
EngineSwap ==
    /\ \A n \in Nodes : phase[n] = "Draw" /\ Alive(n)
    /\ phase' = [n \in Nodes |-> "Idle"]
    /\ frame' = frame + 1
    /\ UNCHANGED <<app, events, globals, terminated, syncVars, dtVars>>

(* input events are dispatched by the render thread between two frames *)
KeyCallback(n) ==
    /\ phase[n] = "Idle" /\ ~terminated[n] /\ Alive(n) /\ app # "spoutsender"
    /\ EventCount < MaxEvents
    /\ \E key \in Keys, action \in KeyActions :
          LET r == KeyCallbackFun(app, globals[n], isMaster(n), key, action)
          IN  /\ globals' = [globals EXCEPT ![n] = r.g]
              /\ terminated' = [terminated EXCEPT ![n] = r.terminate]
    /\ events' = [events EXCEPT ![n] = @ + 1]
    /\ UNCHANGED <<app, phase, frame, syncVars, dtVars>>

MouseButtonCallback(n) ==
    /\ phase[n] = "Idle" /\ ~terminated[n] /\ Alive(n) /\ app = "simplenavigation"
    /\ EventCount < MaxEvents
    /\ \E button \in {"Left", "Right"}, action \in {"Press", "Release"}, mouseX \in MouseXs :
          globals' = [globals EXCEPT ![n] =
                   nav_mouseButtonCallback(globals[n], isMaster(n), button, action, mouseX)]
    /\ events' = [events EXCEPT ![n] = @ + 1]
    /\ UNCHANGED <<app, phase, frame, terminated, syncVars, dtVars>>

DropCallback(n) ==
    /\ phase[n] = "Idle" /\ ~terminated[n] /\ Alive(n) /\ app = "datatransfer"
    /\ EventCount < MaxEvents
    /\ \E path \in Paths :
          globals' = [globals EXCEPT ![n] = dt_dropCallback(globals[n], isMaster(n), path)]
    /\ events' = [events EXCEPT ![n] = @ + 1]
    /\ UNCHANGED <<app, phase, frame, terminated, syncVars, dtVars>>

(* threadWorker, one statement at a time (runs on the master only) *)
LoaderCheck ==
    /\ loaderPc = "check"
    /\ globals[Master].transfer /\ ~globals[Master].serverUploadDone /\ ~globals[Master].clientsUploadDone
    /\ loaderPc' = "start"
    /\ UNCHANGED <<app, phase, frame, globals, terminated, events, syncVars, packages, acks>>

LoaderStart ==
    /\ loaderPc = "start"
    /\ LET r == dt_startDataTransfer(globals[Master])
       IN  /\ globals' = [globals EXCEPT ![Master] = r.g]
           /\ packages' =
                 [n \in Nodes |->
                     IF n \in Clients /\ r.sent # -1
                     THEN Append(packages[n],
                                 [id |-> r.sent,
                                  content |-> FileOf(r.g.imagePaths[r.sent + 1])])
                     ELSE packages[n]]
           /\ loaderPc' = IF r.abort THEN "aborted" ELSE "clear"
    /\ UNCHANGED <<app, phase, frame, terminated, events, syncVars, acks>>

LoaderClearTransfer ==
    /\ loaderPc = "clear"
    /\ globals' = [globals EXCEPT ![Master].transfer = FALSE]
    /\ loaderPc' = "upload"
    /\ UNCHANGED <<app, phase, frame, terminated, events, syncVars, packages, acks>>

LoaderUpload ==
    /\ loaderPc = "upload"
    /\ globals' = [globals EXCEPT ![Master] = dt_uploadTexture(globals[Master])]
    /\ loaderPc' = "done"
    /\ UNCHANGED <<app, phase, frame, terminated, events, syncVars, packages, acks>>

dt_threadWorkerDone_BumpsTexIndex(gl) ==
    LET g1 == [gl EXCEPT !.serverUploadDone = TRUE, !.texIndex = @ + 1]
    IN  IF numberOfNodes = 1 THEN [g1 EXCEPT !.clientsUploadDone = TRUE] ELSE g1
dt_threadWorkerDone(gl) ==
    LET g1 == [gl EXCEPT !.serverUploadDone = TRUE]
    IN  IF numberOfNodes = 1 THEN [g1 EXCEPT !.clientsUploadDone = TRUE] ELSE g1

LoaderDone ==
    /\ loaderPc = "done"
    /\ globals' = [globals EXCEPT ![Master] = dt_threadWorkerDone(globals[Master])]
    /\ loaderPc' = "check"
    /\ UNCHANGED <<app, phase, frame, terminated, events, syncVars, packages, acks>>

(* a data package reaches a client: dataTransferDecoder, then the
   acknowledgement goes back to the master *)
DataTransferDecode(n) ==
    /\ n \in Clients /\ packages[n] # << >>
    /\ LET p == Head(packages[n])
       IN  /\ globals' = [globals EXCEPT ![n] = dt_dataTransferDecoder(globals[n], p.id, p.content)]
           /\ acks' = Append(acks, [id |-> p.id, client |-> n])
    /\ packages' = [packages EXCEPT ![n] = Tail(@)]
    /\ UNCHANGED <<app, events, phase, frame, terminated, syncVars, loaderPc>>

DataTransferAcknowledge ==
    /\ acks # << >> /\ Alive(Master)
    /\ globals' = [globals EXCEPT ![Master] =
                dt_dataTransferAcknowledge(globals[Master], Head(acks).id, numberOfNodes)]
    /\ acks' = Tail(acks)
    /\ UNCHANGED <<app, events, phase, frame, terminated, syncVars, loaderPc, packages>>

NextCluster ==
    \/ \E n \in Nodes : EnginePreSync(n) /\ UNCHANGED notCluster
    \/ EngineEncode /\ UNCHANGED notCluster
    \/ \E n \in Nodes : EngineDecode(n) /\ UNCHANGED notCluster
    \/ \E n \in Nodes : EnginePostSyncPreDraw(n) /\ UNCHANGED notCluster
    \/ \E n \in Nodes : EngineDraw(n) /\ UNCHANGED notCluster
    \/ EngineSwap /\ UNCHANGED notCluster
    \/ \E n \in Nodes : KeyCallback(n) /\ UNCHANGED notCluster
    \/ \E n \in Nodes : MouseButtonCallback(n) /\ UNCHANGED notCluster
    \/ \E n \in Nodes : DropCallback(n) /\ UNCHANGED notCluster
    \/ LoaderCheck /\ UNCHANGED notCluster
    \/ LoaderStart /\ UNCHANGED notCluster
    \/ LoaderClearTransfer /\ UNCHANGED notCluster
    \/ LoaderUpload /\ UNCHANGED notCluster
    \/ LoaderDone /\ UNCHANGED notCluster
    \/ \E n \in Nodes : DataTransferDecode(n) /\ UNCHANGED notCluster
    \/ DataTransferAcknowledge /\ UNCHANGED notCluster

SpecCluster == InitCluster /\ [][NextCluster]_vars

(* every thread and every delivery that can take a step eventually takes one:
   the render loop runs, the loader thread wakes up every 100 ms (line 224),
   packages and acknowledgements arrive *)
SpecClusterFair == SpecCluster /\ WF_vars(NextCluster)

----------------------------------------------------------------------------
(* window.cpp : one Window with one Viewport *)

(* static_cast<float>(res.x) / static_cast<float>(res.y) *)
AspectOf(res) == FDiv(res[1] * Unit, res[2] * Unit)

(* lines 553-562 *)
initWindowResolution(w, resolution) ==
    LET w1 == [w EXCEPT !.windowRes = resolution,
                        !.windowResOld = resolution,
                        !.aspectRatio = AspectOf(resolution),
                        !.isWindowResSet = TRUE]
    IN  IF ~w.useFixResolution
        THEN [w1 EXCEPT !.framebufferRes = resolution]
        ELSE w1

(* lines 425-437 *)
setWindowResolution_Immediate(w, resolution) ==
    [w EXCEPT !.windowRes = resolution]
setWindowResolution(w, resolution) ==
    [w EXCEPT !.hasPendingWindowRes = TRUE, !.pendingWindowRes = resolution]

(* lines 439-446 *)
setFramebufferResolution(w, resolution) ==
    IF ~w.useFixResolution
    THEN [w EXCEPT !.hasPendingFramebufferRes = TRUE,
                   !.pendingFramebufferRes = resolution]
    ELSE w

(* lines 63-91: the GLFW callbacks clamp to at least one pixel *)
windowResizeCallback(w, width, height) ==
    setWindowResolution(w, << Max(width, 1), Max(height, 1) >>)
frameBufferResizeCallback(w, width, height) ==
    setFramebufferResolution(w, << Max(width, 1), Max(height, 1) >>)

(* lines 620-622 *)
isWindowResized(w) == w.windowRes # w.windowResOld

(* lines 448-494: the part of swap that touches the members *)
swap(w) ==
    IF ~((w.visible \/ w.renderWhileHidden) /\ w.allowCapture)
    THEN w
    ELSE [w EXCEPT !.windowResOld = w.windowRes]

(* lines 496-537: the window and its viewport afterwards *)
updateResolutions(w, vp) ==
    LET newAspectRatio == AspectOf(w.pendingWindowRes)
        w1 == IF w.hasPendingWindowRes
              THEN [w EXCEPT !.windowRes = w.pendingWindowRes,
                             !.aspectRatio = newAspectRatio,
                             !.hasPendingWindowRes = FALSE]
              ELSE w
        vp1 == IF w.hasPendingWindowRes
               THEN [updateFovToMatchAspectRatio(vp, w.aspectRatio, newAspectRatio)
                        EXCEPT !.aspectUpdates = @ + 1]
               ELSE vp
        w2 == IF w1.hasPendingFramebufferRes
              THEN [w1 EXCEPT !.framebufferRes = w1.pendingFramebufferRes,
                              !.hasPendingFramebufferRes = FALSE]
              ELSE w1
    IN  [win |-> w2, vp |-> vp1]

(* glm::vec2(_framebufferRes) * vp->getSize() *)
ViewportPixelSize(w, vp) ==
    << FMul(w.framebufferRes[1] * Unit, vp.mSize[1]),
       FMul(w.framebufferRes[2] * Unit, vp.mSize[2]) >>

(* lines 564-603: the return value and the viewport afterwards; nlpSize is
   the argument of the last NonLinearProjection::update *)
update(w, vp) ==
    IF ~w.visible \/ ~isWindowResized(w)
    THEN [ret |-> FALSE, vp |-> vp]
    ELSE [ret |-> TRUE,
          vp |-> IF vp.hasSubViewports
                 THEN [vp EXCEPT !.nlpSize = ViewportPixelSize(w, vp)]
                 ELSE vp]

(* lines 395-411, 707-709 *)
setVisibility(w, state) == IF state # w.visible THEN [w EXCEPT !.visible = state] ELSE w
setRenderWhileHidden(w, state) == [w EXCEPT !.renderWhileHidden = state]
setFixResolution(w, state) == [w EXCEPT !.useFixResolution = state]

(* lines 693-705: bind is what the platform's bind call does: "ok" or "fail"
   is its return value, "absent" a build without the call (__APPLE__) *)
BindResults == {"ok", "fail", "absent"}
setBarrier(w, state, bind) ==
    IF w.useSwapGroups /\ state # w.barrier
    THEN IF bind = "absent" THEN w ELSE [w EXCEPT !.barrier = (bind = "ok")]
    ELSE w
(* lines 624-626 *)
isBarrierActive(w) == w.barrier

(* the window configurations and the sizes reported by the resize callbacks *)
InitialResolutions == {<< 64, 48 >>, << 100, 100 >>}
CallbackSizes == {<< 0, 0 >>, << 64, 48 >>, << 128, 72 >>}
FramebufferScales == {1, 2}
HalfTurnY == [w |-> 0, x |-> 0, y |-> Unit, z |-> 0]
WindowFovs ==
    { [up |-> 20 * Unit, down |-> -20 * Unit, left |-> -30 * Unit, right |-> 30 * Unit,
       rot |-> QuatIdentity],
      [up |-> 45 * Unit, down |-> -10 * Unit, left |-> -45 * Unit, right |-> 20 * Unit,
       rot |-> HalfTurnY] }

(* a constructed Window after initWindowResolution and openWindow
   (lines 826-834: the framebuffer has `scale` pixels per window unit) *)
OpenedWindow(resolution, scale) ==
    LET w0 == [windowRes |-> << 0, 0 >>, windowResOld |-> << 0, 0 >>,
               framebufferRes |-> << 0, 0 >>, aspectRatio |-> Unit,
               isWindowResSet |-> FALSE,
               hasPendingWindowRes |-> FALSE, pendingWindowRes |-> << 0, 0 >>,
               hasPendingFramebufferRes |-> FALSE, pendingFramebufferRes |-> << 0, 0 >>,
               visible |-> TRUE, renderWhileHidden |-> FALSE, allowCapture |-> TRUE,
               useFixResolution |-> FALSE, resizes |-> 0]
        w1 == initWindowResolution(w0, resolution)
    IN  [w1 EXCEPT !.framebufferRes = << scale * resolution[1], scale * resolution[2] >>]

(* the window's viewport: its view plane set from fields of view, and the
   pixel size its non-linear projection (if any) was created with *)
WindowViewport(w, f, hasSubViewports) ==
    LET vp == setViewPlaneCoordsUsingFOVs(InitViewport, f.up, f.down, f.left, f.right,
                                          f.rot, DefaultDist)
    IN  [userPos |-> vp.userPos, mRot |-> vp.mRot, mFOV |-> vp.mFOV,
         mDistance |-> vp.mDistance, unTransformed |-> vp.unTransformed,
         plane |-> vp.plane, mPosition |-> vp.mPosition, mSize |-> vp.mSize,
         hasSubViewports |-> hasSubViewports,
         nlpSize |-> ViewportPixelSize(w, vp),
         initialCoords |-> vp.unTransformed,
         initialAspect |-> w.aspectRatio,
         aspectUpdates |-> 0]

InitWindow ==
    /\ \E r \in InitialResolutions, sc \in FramebufferScales,
          f \in WindowFovs, sub \in BOOLEAN :
          /\ win = OpenedWindow(r, sc)
          /\ wvp = WindowViewport(win, f, sub)
    /\ winPc = "updateResolutions"
    /\ MeshOff /\ ClusterOff /\ SwapOff /\ FovOff /\ MsgOff /\ LateOff

(* the resize callbacks may arrive at any point of the frame (lines 426-433) *)
WindowResizeCallback ==
    /\ win.resizes < MaxResizes
    /\ \E sz \in CallbackSizes :
          win' = [windowResizeCallback(win, sz[1], sz[2]) EXCEPT !.resizes = @ + 1]
    /\ UNCHANGED <<wvp, winPc>>

FrameBufferResizeCallback ==
    /\ win.resizes < MaxResizes
    /\ \E sz \in CallbackSizes :
          win' = [frameBufferResizeCallback(win, sz[1], sz[2]) EXCEPT !.resizes = @ + 1]
    /\ UNCHANGED <<wvp, winPc>>

(* the render loop: updateResolutions after the events were polled, then
   update, then (after drawing) swap *)
UpdateResolutions ==
    /\ winPc = "updateResolutions"
    /\ LET r == updateResolutions(win, wvp)
       IN  win' = r.win /\ wvp' = r.vp
    /\ winPc' = "update"

Update ==
    /\ winPc = "update"
    /\ wvp' = update(win, wvp).vp
    /\ winPc' = "swap"
    /\ UNCHANGED win

Swap ==
    /\ winPc = "swap"
    /\ win' = swap(win)
    /\ winPc' = "updateResolutions"
    /\ UNCHANGED wvp

SetVisibility ==
    /\ \E state \in BOOLEAN : win' = setVisibility(win, state)
    /\ UNCHANGED <<wvp, winPc>>

SetRenderWhileHidden ==
    /\ \E state \in BOOLEAN : win' = setRenderWhileHidden(win, state)
    /\ UNCHANGED <<wvp, winPc>>

SetFixResolution ==
    /\ \E state \in BOOLEAN : win' = setFixResolution(win, state)
    /\ UNCHANGED <<wvp, winPc>>

NextWindow ==
    \/ WindowResizeCallback /\ UNCHANGED notWindow
    \/ FrameBufferResizeCallback /\ UNCHANGED notWindow
    \/ UpdateResolutions /\ UNCHANGED notWindow
    \/ Update /\ UNCHANGED notWindow
    \/ Swap /\ UNCHANGED notWindow
    \/ SetVisibility /\ UNCHANGED notWindow
    \/ SetRenderWhileHidden /\ UNCHANGED notWindow
    \/ SetFixResolution /\ UNCHANGED notWindow

SpecWindow == InitWindow /\ [][NextWindow]_vars

----------------------------------------------------------------------------
(* window.cpp : the swap group, static members shared by all windows *)

Platforms == {"WIN32", "linux", "__APPLE__"}

(* lines 880-944: extension is glfwExtensionSupported(...), join the return
   value of wglJoinSwapGroupNV / glXJoinSwapGroupNV *)
initNvidiaSwapGroups(sg, extension, join) ==
    IF sg.platform = "__APPLE__"
    THEN sg
    ELSE [sg EXCEPT !.useSwapGroups = extension /\ join]

(* lines 1019-1043: success is the outcome of the reset call *)
resetSwapGroupFrameNumber(sg, extension, reset) ==
    IF sg.barrier
    THEN LET success == sg.platform # "__APPLE__" /\ extension /\ reset
         IN  [sg EXCEPT !.swapGroupMaster = success,
                        !.frameCount = IF success THEN 0 ELSE @]
    ELSE sg

InitSwapGroup ==
    /\ \E pf \in Platforms :
          swapGroup = [platform |-> pf, useSwapGroups |-> FALSE, barrier |-> FALSE,
                       swapGroupMaster |-> FALSE, frameCount |-> 0,
                       barrierCall |-> [before |-> FALSE, useSwapGroups |-> FALSE,
                                        state |-> FALSE, bind |-> "none"]]
    /\ MeshOff /\ ClusterOff /\ WindowOff /\ FovOff /\ MsgOff /\ LateOff

InitNvidiaSwapGroups ==
    \E extension \in BOOLEAN, join \in BOOLEAN :
        swapGroup' = initNvidiaSwapGroups(swapGroup, extension, join)

(* barrierCall records the call: the flags before, the request, and what the
   platform's bind call did *)
SetBarrier ==
    \E state \in BOOLEAN, bind \in BindResults :
        /\ (bind = "absent") <=> (swapGroup.platform = "__APPLE__")
        /\ swapGroup' = [setBarrier(swapGroup, state, bind) EXCEPT
                            !.barrierCall = [before |-> swapGroup.barrier,
                                             useSwapGroups |-> swapGroup.useSwapGroups,
                                             state |-> state, bind |-> bind]]

ResetSwapGroupFrameNumber ==
    \E extension \in BOOLEAN, reset \in BOOLEAN :
        swapGroup' = resetSwapGroupFrameNumber(swapGroup, extension, reset)

(* the hardware counts the swaps of a bound barrier (getSwapGroupFrameNumber) *)
BarrierSwap ==
    /\ swapGroup.barrier /\ swapGroup.frameCount < MaxFrames
    /\ swapGroup' = [swapGroup EXCEPT !.frameCount = @ + 1]

NextSwapGroup ==
    \/ InitNvidiaSwapGroups /\ UNCHANGED notSwap
    \/ SetBarrier /\ UNCHANGED notSwap
    \/ ResetSwapGroupFrameNumber /\ UNCHANGED notSwap
    \/ BarrierSwap /\ UNCHANGED notSwap

SpecSwapGroup == InitSwapGroup /\ [][NextSwapGroup]_vars

----------------------------------------------------------------------------
(* One BaseViewport configured through its field-of-view interface
   (BaseViewport.cpp lines 160-238).  bvp.vp is the viewport; bvp.nan tells
   that its plane coordinates are NaN; bvp.configured that
   setViewPlaneCoordsUsingFOVs has run (mUnTransformedViewPlaneCoords has no
   value before). *)

MaxFovCalls == 3     \* calls made on the viewport

(* rotation by a third of a turn about (1, 1, 1): (x, y, z) -> (z, x, y) *)
ThirdTurnDiagonal == [w |-> Unit \div 2, x |-> Unit \div 2, y |-> Unit \div 2,
                      z |-> Unit \div 2]

FovAngles ==
    { [up |-> 20 * Unit, down |-> -20 * Unit, left |-> -30 * Unit, right |-> 30 * Unit],
      [up |-> 20 * Unit, down |-> -20 * Unit, left |-> -45 * Unit, right |-> 20 * Unit],
      [up |-> 30 * Unit, down |-> -10 * Unit, left |-> -40 * Unit, right |-> 40 * Unit] }
FovRotations == { QuatIdentity, HalfTurnY, ThirdTurnDiagonal }
FovDistances == { 0, 2 * Unit, DefaultDist }
HorizFovs == { 10 * Unit, 60 * Unit, 75 * Unit, 120 * Unit }
FovAspects == { Unit \div 2, Unit, (16 * Unit) \div 9 }

NoFovCall ==
    [op |-> "none", before |-> InitViewport, beforeNan |-> FALSE,
     dist |-> 0, horizFovDeg |-> 0, aspectRatio |-> 0,
     result |-> Finite(0), error |-> "none"]

InitFov ==
    /\ bvp = [vp |-> InitViewport, nan |-> FALSE, configured |-> FALSE, calls |-> 0]
    /\ bvpCall = NoFovCall
    /\ MeshOff /\ ClusterOff /\ WindowOff /\ SwapOff /\ MsgOff /\ LateOff

(* width / height of the untransformed plane; 0 / 0 is a NaN *)
PlaneAspect(vp) ==
    LET width == vp.unTransformed.upperRight[1] - vp.unTransformed.upperLeft[1]
        height == vp.unTransformed.upperLeft[2] - vp.unTransformed.lowerLeft[2]
    IN  IF height = 0 THEN NaN ELSE Finite(FDiv(Abs(width), Abs(height)))

(* the getter on a viewport whose plane may hold NaNs *)
FovOf(b) == IF b.nan THEN NaN ELSE getHorizontalFieldOfViewDegrees(b.vp)

(* the setter with arguments that may be NaN, on a plane that may hold NaNs:
   every product with a NaN is a NaN *)
SetFovOf(b, h, aspect) ==
    IF b.nan \/ h.nan \/ aspect.nan
    THEN [b EXCEPT !.nan = TRUE]
    ELSE LET r == setHorizontalFieldOfView(b.vp, h.deg, aspect.deg)
         IN  [b EXCEPT !.vp = r.vp, !.nan = r.nan]

SetViewPlaneCoordsUsingFOVs ==
    /\ bvp.calls < MaxFovCalls
    /\ \E f \in FovAngles, rot \in FovRotations, dist \in FovDistances :
          /\ bvp' = [vp |-> setViewPlaneCoordsUsingFOVs(bvp.vp, f.up, f.down, f.left,
                                                        f.right, rot, dist),
                     nan |-> FALSE, configured |-> TRUE, calls |-> bvp.calls + 1]
          /\ bvpCall' = [NoFovCall EXCEPT !.op = "setViewPlaneCoordsUsingFOVs",
                                          !.before = bvp.vp, !.beforeNan = bvp.nan,
                                          !.dist = dist]

GetHorizontalFieldOfViewDegrees ==
    /\ bvp.calls < MaxFovCalls
    /\ bvp' = [bvp EXCEPT !.calls = @ + 1]
    /\ bvpCall' = [NoFovCall EXCEPT !.op = "getHorizontalFieldOfViewDegrees",
                                    !.before = bvp.vp, !.beforeNan = bvp.nan,
                                    !.result = FovOf(bvp)]

SetHorizontalFieldOfView ==
    /\ bvp.calls < MaxFovCalls
    /\ \E h \in HorizFovs, aspect \in FovAspects :
          /\ bvp' = [SetFovOf(bvp, Finite(h), Finite(aspect)) EXCEPT !.calls = @ + 1]
          /\ bvpCall' = [NoFovCall EXCEPT !.op = "setHorizontalFieldOfView",
                                          !.before = bvp.vp, !.beforeNan = bvp.nan,
                                          !.horizFovDeg = h, !.aspectRatio = aspect]

(* setHorizontalFieldOfView(getHorizontalFieldOfViewDegrees(), aspect) with the
   aspect ratio of the plane that setViewPlaneCoordsUsingFOVs made *)
RestoreHorizontalFieldOfView ==
    /\ bvp.calls < MaxFovCalls
    /\ bvp.configured
    /\ bvp' = [SetFovOf(bvp, FovOf(bvp), PlaneAspect(bvp.vp)) EXCEPT !.calls = @ + 1]
    /\ bvpCall' = [NoFovCall EXCEPT !.op = "restoreHorizontalFieldOfView",
                                    !.before = bvp.vp, !.beforeNan = bvp.nan,
                                    !.result = FovOf(bvp)]

NextFov ==
    \/ SetViewPlaneCoordsUsingFOVs /\ UNCHANGED notFov
    \/ GetHorizontalFieldOfViewDegrees /\ UNCHANGED notFov
    \/ SetHorizontalFieldOfView /\ UNCHANGED notFov
    \/ RestoreHorizontalFieldOfView /\ UNCHANGED notFov

SpecFov == InitFov /\ [][NextFov]_vars

----------------------------------------------------------------------------
(* MessageHandler.cpp / MessageHandler.h.  mh holds the members of the
   singleton; a char string is the sequence of its bytes before the
   terminating zero.  mh.log lists the strings handed to sendMessageToServer
   since the buffer was last emptied, each with the value mLocal had, and
   mh.last names the function called last. *)

MaxMessages == 3     \* strings handed to the handler

(* SGCTNetwork::mHeaderSize and SGCTNetwork::SyncByte: a fixed header length
   and the marker byte that fills it *)
mHeaderSize == 4
SyncByte == 17

(* enum NotifyLevel (MessageHandler.h line 26) *)
NOTIFY_ERROR == 0
NOTIFY_WARNING == 4
NOTIFY_ALL == 6
NotifyLevels == NOTIFY_ERROR..NOTIFY_ALL

SyncHeader == [i \in 1..mHeaderSize |-> SyncByte]

(* what an array holds that was allocated and never written *)
UnwrittenHeaders == { SyncHeader, [i \in 1..mHeaderSize |-> 0] }

(* the strings printed: empty, plain text, text holding the marker byte *)
Messages == { << >>, << 65 >>, << 66, SyncByte >> }

(* lines 23-54.  alloc tells which of the three new (std::nothrow) succeeded;
   after the early return of line 33 mLevel, mLocal and the contents of
   headerSpace are whatever the memory held: level, local and unwritten *)
MessageHandler_ctor(alloc, level, local, unwritten) ==
    IF ~alloc.headerSpace \/ ~alloc.mCombinedBuffer
    THEN [constructed |-> FALSE, crashed |-> FALSE,
          mParseBuffer |-> alloc.mParseBuffer,
          headerSpace |-> [null |-> ~alloc.headerSpace, bytes |-> unwritten],
          mBuffer |-> << >>, mLocal |-> local, mLevel |-> level,
          log |-> << >>, calls |-> 0, last |-> "MessageHandler"]
    ELSE [constructed |-> TRUE, crashed |-> FALSE,
          mParseBuffer |-> alloc.mParseBuffer,
          headerSpace |-> [null |-> FALSE, bytes |-> SyncHeader],
          mBuffer |-> SyncHeader, mLocal |-> TRUE, mLevel |-> NOTIFY_WARNING,
          log |-> << >>, calls |-> 0, last |-> "MessageHandler"]

(* lines 365-379; str.null tells the NULL pointer.  Copying from a null
   headerSpace ends the process *)
sendMessageToServer(m, str) ==
    IF str.null THEN m
    ELSE IF m.mLocal
    THEN [m EXCEPT !.log = Append(@, [text |-> str.text, local |-> TRUE])]
    ELSE IF m.mBuffer = << >> /\ m.headerSpace.null
         THEN [m EXCEPT !.crashed = TRUE]
         ELSE [m EXCEPT
                 !.mBuffer = (IF @ = << >> THEN m.headerSpace.bytes ELSE @) \o str.text,
                 !.log = Append(@, [text |-> str.text, local |-> FALSE])]

(* lines 84-121: the text is formatted into mParseBuffer (a store through a
   null pointer when that allocation failed), written to the console, and
   handed to sendMessageToServer.  text is the formatted string *)
printv(m, text) ==
    IF ~m.mParseBuffer THEN [m EXCEPT !.crashed = TRUE]
    ELSE sendMessageToServer(m, text)

(* lines 206-217: print(fmt, ...); fmt.null tells the NULL pointer *)
print(m, fmt) ==
    IF fmt.null
    THEN IF ~m.mParseBuffer THEN [m EXCEPT !.crashed = TRUE] ELSE m
    ELSE printv(m, fmt)

(* lines 224-235: print(nl, fmt, ...) *)
printLevel(m, nl, fmt) ==
    IF nl > m.mLevel \/ fmt.null
    THEN IF ~m.mParseBuffer THEN [m EXCEPT !.crashed = TRUE] ELSE m
    ELSE printv(m, fmt)

(* lines 237-242 *)
clearBuffer(m) == [m EXCEPT !.mBuffer = << >>, !.log = << >>]

(* MessageHandler.h line 55 *)
setSendFeedbackToServer(m, state) == [m EXCEPT !.mLocal = ~state]

(* lines 248-253 *)
setNotifyLevel(m, nl) == [m EXCEPT !.mLevel = nl]

Allocations == [mParseBuffer : BOOLEAN, mCombinedBuffer : BOOLEAN, headerSpace : BOOLEAN]

(* MessageHandler::instance() has constructed the singleton *)
InitMsg ==
    /\ \E alloc \in Allocations, level \in {NOTIFY_ERROR, NOTIFY_ALL},
          local \in BOOLEAN, unwritten \in UnwrittenHeaders :
          /\ (alloc.headerSpace /\ alloc.mCombinedBuffer)
                => (level = NOTIFY_ERROR /\ local /\ unwritten = SyncHeader)
          /\ mh = MessageHandler_ctor(alloc, level, local, unwritten)
    /\ MeshOff /\ ClusterOff /\ WindowOff /\ SwapOff /\ FovOff /\ LateOff

(* a char pointer argument: NULL or a string *)
Strings == { [null |-> TRUE, text |-> << >>] }
               \cup { [null |-> FALSE, text |-> t] : t \in Messages }

CanCall == ~mh.crashed /\ mh.calls < MaxMessages

PrintMessage ==
    /\ CanCall
    /\ \E fmt \in Strings : mh' = [print(mh, fmt) EXCEPT !.calls = @ + 1, !.last = "print"]

PrintLevel ==
    /\ CanCall
    /\ \E nl \in NotifyLevels, fmt \in Strings :
          mh' = [printLevel(mh, nl, fmt) EXCEPT !.calls = @ + 1,
                                              !.last = "print(nl)"]

SendMessageToServer ==
    /\ CanCall
    /\ \E str \in Strings :
          mh' = [sendMessageToServer(mh, str) EXCEPT !.calls = @ + 1,
                                                     !.last = "sendMessageToServer"]

ClearBuffer ==
    /\ ~mh.crashed
    /\ mh' = clearBuffer(mh)

SetSendFeedbackToServer ==
    /\ ~mh.crashed
    /\ \E state \in BOOLEAN : mh' = setSendFeedbackToServer(mh, state)

SetNotifyLevel ==
    /\ ~mh.crashed
    /\ \E nl \in {NOTIFY_ERROR, NOTIFY_WARNING, NOTIFY_ALL} : mh' = setNotifyLevel(mh, nl)

NextMsg ==
    \/ PrintMessage /\ UNCHANGED notMsg
    \/ PrintLevel /\ UNCHANGED notMsg
    \/ SendMessageToServer /\ UNCHANGED notMsg
    \/ ClearBuffer /\ UNCHANGED notMsg
    \/ SetSendFeedbackToServer /\ UNCHANGED notMsg
    \/ SetNotifyLevel /\ UNCHANGED notMsg

SpecMsg == InitMsg /\ [][NextMsg]_vars

EarlyOff == MeshOff /\ ClusterOff /\ WindowOff /\ SwapOff /\ FovOff

----------------------------------------------------------------------------
(* Two threads calling MessageHandler::print (MessageHandler.cpp lines
   84-121, 206-235, 365-379), one statement at a time.  threads.parse is the
   string held by mParseBuffer, threads.consoleMutex the thread holding
   SGCTMutexManager::ConsoleMutex (0 if none).  Of each thread: pc is its
   position, text the string its call formats, via the function it called,
   last what its last completed call formatted and what it appended to
   mBuffer.  threads.bareWrite tells that mParseBuffer was written by a
   thread not holding the console mutex. *)

PrintThreads == {1, 2}

NoPrint == [sent |-> FALSE, formatted |-> << >>, appended |-> << >>]

InitPrintThreads ==
    /\ \E state \in BOOLEAN :
          mh = setSendFeedbackToServer(
                   MessageHandler_ctor([mParseBuffer |-> TRUE, mCombinedBuffer |-> TRUE,
                                        headerSpace |-> TRUE],
                                       NOTIFY_ERROR, TRUE, SyncHeader),
                   state)
    /\ threads = [parse |-> << >>, consoleMutex |-> 0, bareWrite |-> FALSE,
                  pc |-> [t \in PrintThreads |-> "idle"],
                  text |-> [t \in PrintThreads |-> << >>],
                  via |-> [t \in PrintThreads |-> "none"],
                  last |-> [t \in PrintThreads |-> NoPrint]]
    /\ EarlyOff /\ ShadersOff /\ TrackerOff /\ ContextOff

(* print(fmt, ...), lines 206-217: the test of fmt *)
ThreadPrint(t) ==
    /\ threads.pc[t] = "idle" /\ mh.calls < MaxMessages
    /\ \E fmt \in Strings :
          threads' = [threads EXCEPT !.pc[t] = IF fmt.null THEN "zero" ELSE "lock",
                                     !.text[t] = fmt.text,
                                     !.via[t] = "print"]
    /\ mh' = [mh EXCEPT !.calls = @ + 1]

(* print(nl, fmt, ...), lines 224-235: the test of nl and fmt *)
ThreadPrintLevel(t) ==
    /\ threads.pc[t] = "idle" /\ mh.calls < MaxMessages
    /\ \E nl \in NotifyLevels, fmt \in Strings :
          threads' = [threads EXCEPT
                        !.pc[t] = IF nl > mh.mLevel \/ fmt.null THEN "zero" ELSE "lock",
                        !.text[t] = fmt.text,
                        !.via[t] = "print(nl)"]
    /\ mh' = [mh EXCEPT !.calls = @ + 1]

(* *mParseBuffer = 0 (lines 210, 228), then return *)
ThreadZero(t) ==
    /\ threads.pc[t] = "zero"
    /\ threads' = [threads EXCEPT !.parse = << >>,
                                  !.bareWrite = @ \/ threads.consoleMutex # t,
                                  !.pc[t] = "idle",
                                  !.last[t] = NoPrint]
    /\ UNCHANGED mh

(* printv, line 87: lockMutex(ConsoleMutex) *)
ThreadLock(t) ==
    /\ threads.pc[t] = "lock" /\ threads.consoleMutex = 0
    /\ threads' = [threads EXCEPT !.consoleMutex = t, !.pc[t] = "clear"]
    /\ UNCHANGED mh

(* line 88: mParseBuffer[0] = '\0' *)
ThreadClear(t) ==
    /\ threads.pc[t] = "clear"
    /\ threads' = [threads EXCEPT !.parse = << >>,
                                  !.bareWrite = @ \/ threads.consoleMutex # t,
                                  !.pc[t] = "format"]
    /\ UNCHANGED mh

(* lines 90-95: vsprintf into mParseBuffer (and the console output, 98-115) *)
ThreadFormat(t) ==
    /\ threads.pc[t] = "format"
    /\ threads' = [threads EXCEPT !.parse = threads.text[t],
                                  !.bareWrite = @ \/ threads.consoleMutex # t,
                                  !.pc[t] = "unlock"]
    /\ UNCHANGED mh

(* line 117: unlockMutex(ConsoleMutex) *)
ThreadUnlock(t) ==
    /\ threads.pc[t] = "unlock"
    /\ threads' = [threads EXCEPT !.consoleMutex = 0, !.pc[t] = "send"]
    /\ UNCHANGED mh

(* line 120: sendMessageToServer(mParseBuffer), which reads the string that
   mParseBuffer holds now (lines 365-379, under DataSyncMutex) *)
ThreadSend(t) ==
    /\ threads.pc[t] = "send"
    /\ mh' = sendMessageToServer(mh, [null |-> FALSE, text |-> threads.parse])
    /\ threads' = [threads EXCEPT
                     !.pc[t] = "idle",
                     !.last[t] = [sent |-> ~mh.mLocal,
                                  formatted |-> threads.text[t],
                                  appended |-> IF mh.mLocal THEN << >> ELSE threads.parse]]

NextPrintThreads ==
    \/ \E t \in PrintThreads : ThreadPrint(t) /\ UNCHANGED notThreads
    \/ \E t \in PrintThreads : ThreadPrintLevel(t) /\ UNCHANGED notThreads
    \/ \E t \in PrintThreads : ThreadZero(t) /\ UNCHANGED notThreads
    \/ \E t \in PrintThreads : ThreadLock(t) /\ UNCHANGED notThreads
    \/ \E t \in PrintThreads : ThreadClear(t) /\ UNCHANGED notThreads
    \/ \E t \in PrintThreads : ThreadFormat(t) /\ UNCHANGED notThreads
    \/ \E t \in PrintThreads : ThreadUnlock(t) /\ UNCHANGED notThreads
    \/ \E t \in PrintThreads : ThreadSend(t) /\ UNCHANGED notThreads

SpecPrintThreads == InitPrintThreads /\ [][NextPrintThreads]_vars

----------------------------------------------------------------------------
(* ShaderManager (shadermanager.cpp) and ShaderProgram (shaderprogram.cpp).
   A program is [name, isLinked, programId]; _shaderPrograms is a sequence of
   programs.  What the OpenGL driver answers is an input of the call:
   "ok", "compile" (the Shader constructor throws), "create" (glCreateProgram
   returns 0) or "link" (GL_LINK_STATUS is 0).  An operation returns
   [thrown, ...] with thrown = 0 when it returns normally and the error code
   otherwise. *)

MaxShaderCalls == 4

ShaderNames == {"a", "b", "c"}

GlOutcomes == {"ok", "compile", "create", "link"}

(* shadermanager.cpp lines 94-102 *)
shaderProgramExists(programs, name) ==
    \E i \in 1..Len(programs) : programs[i].name = name

(* shaderprogram.cpp lines 121-146, for a program with _programId = 0 *)
createProgram(sp, gl, id) ==
    IF sp.programId > 0
    THEN [ok |-> ~sp.isLinked, sp |-> sp]
    ELSE IF gl = "create"
         THEN [ok |-> FALSE, sp |-> sp]
         ELSE [ok |-> TRUE, sp |-> [sp EXCEPT !.programId = id]]

(* shaderprogram.cpp lines 97-119 *)
createAndLinkProgram(sp, gl, id) ==
    IF sp.shaders = 0
    THEN [thrown |-> 7010, sp |-> sp]
    ELSE LET c == createProgram(sp, gl, id) IN
         IF ~c.ok
         THEN [thrown |-> 7011, sp |-> c.sp]
         ELSE IF gl = "link"
              THEN [thrown |-> 7012, sp |-> [c.sp EXCEPT !.isLinked = FALSE]]
              ELSE [thrown |-> 0, sp |-> [c.sp EXCEPT !.isLinked = TRUE]]

(* Mutant: the program is added without the test of lines 46-48 *)
addShaderProgram_NoCheck(programs, name, gl, id) ==
    LET sp == [name |-> name, isLinked |-> FALSE, programId |-> 0, shaders |-> 2]
        l  == createAndLinkProgram(sp, gl, id)
    IN  IF gl = "compile"
        THEN [thrown |-> 7020, programs |-> programs]
        ELSE IF l.thrown # 0
             THEN [thrown |-> l.thrown, programs |-> programs]
             ELSE [thrown |-> 0, programs |-> Append(programs, l.sp)]

(* shadermanager.cpp lines 40-60; the vertex and the fragment source are
   always added (lines 52-53), so the program has at least two shaders *)
addShaderProgram(programs, name, gl, id) ==
    IF shaderProgramExists(programs, name)
    THEN [thrown |-> 7000, programs |-> programs]
    ELSE LET sp == [name |-> name, isLinked |-> FALSE, programId |-> 0, shaders |-> 2]
             l  == createAndLinkProgram(sp, gl, id)
         IN  IF gl = "compile"
             THEN [thrown |-> 7020, programs |-> programs]
             ELSE IF l.thrown # 0
                  THEN [thrown |-> l.thrown, programs |-> programs]
                  ELSE [thrown |-> 0, programs |-> Append(programs, l.sp)]

(* std::find_if of lines 63-67: the first position holding the name, or
   Len + 1 for end() *)
FindShader(programs, name) ==
    IF shaderProgramExists(programs, name)
    THEN CHOOSE i \in 1..Len(programs) :
            /\ programs[i].name = name
            /\ \A j \in 1..(i - 1) : programs[j].name # name
    ELSE Len(programs) + 1

(* shadermanager.cpp lines 62-80 *)
removeShaderProgram(programs, name) ==
    LET shaderIt == FindShader(programs, name) IN
    IF shaderIt = Len(programs) + 1
    THEN [result |-> FALSE, programs |-> programs]
    ELSE [result |-> TRUE,
          programs |-> SubSeq(programs, 1, shaderIt - 1)
                          \o SubSeq(programs, shaderIt + 1, Len(programs))]

(* shaders.programs is _shaderPrograms; op, name, thrown and result describe
   the last call, prev the programs before it *)
InitShaders ==
    /\ shaders = [programs |-> << >>, prev |-> << >>, op |-> "none", name |-> "",
                  thrown |-> 0, result |-> TRUE, calls |-> 0]
    /\ EarlyOff /\ MsgOff /\ ThreadsOff /\ TrackerOff /\ ContextOff

AddShaderProgram ==
    /\ shaders.calls < MaxShaderCalls
    /\ \E name \in ShaderNames, gl \in GlOutcomes :
          LET r == addShaderProgram(shaders.programs, name, gl, shaders.calls + 1) IN
          shaders' = [programs |-> r.programs, prev |-> shaders.programs, op |-> "add",
                      name |-> name, thrown |-> r.thrown, result |-> TRUE,
                      calls |-> shaders.calls + 1]

RemoveShaderProgram ==
    /\ shaders.calls < MaxShaderCalls
    /\ \E name \in ShaderNames :
          LET r == removeShaderProgram(shaders.programs, name) IN
          shaders' = [programs |-> r.programs, prev |-> shaders.programs, op |-> "remove",
                      name |-> name, thrown |-> 0, result |-> r.result,
                      calls |-> shaders.calls + 1]

NextShaders ==
    \/ AddShaderProgram /\ UNCHANGED notShaders
    \/ RemoveShaderProgram /\ UNCHANGED notShaders

SpecShaders == InitShaders /\ [][NextShaders]_vars

----------------------------------------------------------------------------
(* vrpn_Tracker_WiimoteHead (ext/vrpn/vrpn_Tracker_WiimoteHead.c).
   A blob is <<x, y, size>>, a gravity vector a triple in thousandths.  A
   pose is kept as the quantities the code computes it from: dx and dy of
   the two points (distance along z and the rotation about z), the sums of
   their coordinates (the x and y displacement), and the gravity transform
   it was composed with.  A gravity transform is kept as the averaged vector
   that q_from_two_vecs turns towards (0, 0, 1). *)

MaxTrackerCalls == 3

MissingBlob == <<-1, -1, -1>>

BlobA == <<100, 300, 2>>

BlobB == <<200, 100, 3>>

(* The blobs of the analog reports tried: none, one, two in either order,
   three, and two behind a missing first blob *)
BlobReports ==
    { <<MissingBlob, MissingBlob, MissingBlob, MissingBlob>>,
      <<BlobA, MissingBlob, MissingBlob, MissingBlob>>,
      <<BlobA, BlobB, MissingBlob, MissingBlob>>,
      <<BlobB, BlobA, MissingBlob, MissingBlob>>,
      <<BlobA, BlobB, BlobA, MissingBlob>>,
      <<MissingBlob, BlobA, BlobB, MissingBlob>> }

Gravities == {<<0, 0, 1000>>, <<0, 1000, 0>>}

IdentityXform == <<0, 0, 1000>>

IdentityPose == [kind |-> "identity", dx |-> 0, dy |-> 0, sumX |-> 0, sumY |-> 0,
                 grav |-> IdentityXform]

(* lines 304-306: the three channels of a blob are all positive *)
ValidBlob(b) == b[1] > 0 /\ b[2] > 0 /\ b[3] > 0

(* lines 550-552 *)
have_gravity(t) == t.d_vGrav # <<0, 1000, 0>>

(* lines 358-377 *)
update_gravity_moving_avg(t) ==
    LET sum == [i \in 1..3 |-> t.d_vGrav[i] + t.d_vGravPenultimate[i]
                                 + t.d_vGravAntepenultimate[i]]
        movingAvg == [i \in 1..3 |-> (sum[i] * 33333) \div 100000]
    IN  [t EXCEPT !.d_gravityXform = movingAvg, !.d_gravDirty = FALSE]

(* lines 379-460 *)
update_2_LED_pose(t) ==
    IF t.d_points # 2
    THEN [t EXCEPT !.d_lock = FALSE, !.d_flipState = "FLIP_UNKNOWN"]
    ELSE LET flipped == t.d_flipState = "FLIP_180"
             X0 == IF flipped THEN t.d_vX[2] ELSE t.d_vX[1]
             X1 == IF flipped THEN t.d_vX[1] ELSE t.d_vX[2]
             Y0 == IF flipped THEN t.d_vY[2] ELSE t.d_vY[1]
             Y1 == IF flipped THEN t.d_vY[1] ELSE t.d_vY[2]
         IN  [t EXCEPT !.d_lock = TRUE,
                       !.d_currentPose = [kind |-> "led", dx |-> X0 - X1, dy |-> Y0 - Y1,
                                          sumX |-> X0 + X1, sumY |-> Y0 + Y1,
                                          grav |-> IdentityXform]]

(* lines 487-490 *)
convert_pose_to_tracker(t) == [t EXCEPT !.pos = t.d_currentPose]

(* lines 467-470: the up vector turned by the pose has a negative y
   component; for the gravity vectors of Gravities this is the sign of
   cos(atan2(dy, dx)) *)
UpsideDown(t) == t.d_currentPose.dx < 0

(* lines 229-261, with _update_flip_state (lines 462-485), which calls
   update_pose again after setting FLIP_180 *)
RECURSIVE update_pose(_)
update_pose(t) ==
    LET t1 == IF t.d_gravDirty /\ have_gravity(t)
              THEN update_gravity_moving_avg(t) ELSE t
        t2 == update_2_LED_pose(t1)
        t3 == IF have_gravity(t2)
              THEN [t2 EXCEPT !.d_currentPose.grav = t2.d_gravityXform]
              ELSE t2
    IN  IF ~t2.d_lock
        THEN t2
        ELSE IF t3.d_flipState # "FLIP_UNKNOWN"
             THEN convert_pose_to_tracker(t3)
             ELSE IF UpsideDown(t3)
                  THEN update_pose([t3 EXCEPT !.d_flipState = "FLIP_180"])
                  ELSE convert_pose_to_tracker([t3 EXCEPT !.d_flipState = "FLIP_NORMAL"])

(* lines 298-314: the loop over the blobs stops at the first missing one *)
RECURSIVE GrabBlobs(_, _, _)
GrabBlobs(t, blobs, i) ==
    IF i > 4 \/ ~ValidBlob(blobs[i])
    THEN t
    ELSE GrabBlobs([t EXCEPT !.d_vX[i] = blobs[i][1],
                             !.d_vY[i] = blobs[i][2],
                             !.d_vSize[i] = blobs[i][3],
                             !.d_points = i],
                   blobs, i + 1)

(* lines 285-343 *)
handle_analog_update(t, blobs, grav, time) ==
    LET t1 == [GrabBlobs(t, blobs, 1) EXCEPT !.d_contact = TRUE, !.d_updated = TRUE]
        t2 == IF grav = t1.d_vGrav
              THEN t1
              ELSE [t1 EXCEPT
                      !.d_vGravAntepenultimate =
                          IF t1.d_gravDirty THEN @ ELSE t1.d_vGravPenultimate,
                      !.d_vGravPenultimate =
                          IF t1.d_gravDirty THEN @ ELSE t1.d_vGrav,
                      !.d_vGrav = grav,
                      !.d_gravDirty = TRUE]
    IN  [t2 EXCEPT !.timestamp = time]

(* lines 160-164 with 493-533 *)
reset(t) ==
    convert_pose_to_tracker(
        [t EXCEPT !.d_gravityXform = IdentityXform,
                  !.d_vGrav = <<0, 0, 1000>>,
                  !.d_vGravPenultimate = <<0, 0, 1000>>,
                  !.d_vGravAntepenultimate = <<0, 0, 1000>>,
                  !.d_gravDirty = TRUE,
                  !.d_currentPose = IdentityPose,
                  !.d_updated = TRUE,
                  !.d_vX = <<-1, -1, -1, -1>>,
                  !.d_vY = <<-1, -1, -1, -1>>,
                  !.d_vSize = <<-1, -1, -1, -1>>,
                  !.d_points = 0,
                  !.d_flipState = "FLIP_UNKNOWN",
                  !.d_lock = FALSE])

(* lines 95-139: the state after construction with a Wiimote name.  valid is
   the number of valid blobs of the latest analog report (-1 before the
   first), op the last function run, before the tracker as update_pose
   found it. *)
WiimoteHead_ctor ==
    LET t == reset([d_flipState |-> "FLIP_UNKNOWN", d_points |-> 0, d_contact |-> FALSE,
                    d_lock |-> FALSE, d_updated |-> FALSE, d_gravDirty |-> TRUE,
                    d_vX |-> <<0, 0, 0, 0>>, d_vY |-> <<0, 0, 0, 0>>,
                    d_vSize |-> <<0, 0, 0, 0>>,
                    d_vGrav |-> <<0, 0, 0>>, d_vGravPenultimate |-> <<0, 0, 0>>,
                    d_vGravAntepenultimate |-> <<0, 0, 0>>,
                    d_gravityXform |-> IdentityXform,
                    d_currentPose |-> IdentityPose, pos |-> IdentityPose,
                    timestamp |-> 0])
    IN  convert_pose_to_tracker([t EXCEPT !.d_currentPose.kind = "default"])

InitTracker ==
    /\ tracker = [t |-> WiimoteHead_ctor, valid |-> -1, op |-> "ctor",
                  before |-> WiimoteHead_ctor, calls |-> 0]
    /\ EarlyOff /\ MsgOff /\ ThreadsOff /\ ShadersOff /\ ContextOff

(* The valid blobs of a report: those before the first missing one, which
   are the ones the loop of lines 300-314 reads *)
ValidBlobs(blobs) ==
    Cardinality({i \in 1..4 : \A j \in 1..i : ValidBlob(blobs[j])})

HandleAnalogUpdate ==
    /\ tracker.calls < MaxTrackerCalls
    /\ \E blobs \in BlobReports, grav \in Gravities :
          tracker' = [tracker EXCEPT
                        !.t = handle_analog_update(tracker.t, blobs, grav, tracker.calls + 1),
                        !.valid = ValidBlobs(blobs),
                        !.op = "handle_analog_update",
                        !.calls = @ + 1]

(* handle_connection, lines 346-356 *)
HandleConnection ==
    /\ ~tracker.t.d_updated
    /\ tracker' = [tracker EXCEPT !.t.d_updated = TRUE, !.op = "handle_connection"]

(* mainloop, lines 204-227, with _should_report (535-548) and report
   (263-282); elapsed tells whether the update interval has passed *)
Mainloop ==
    /\ tracker.op # "mainloop"
    /\ \E elapsed \in BOOLEAN :
          IF tracker.t.d_updated \/ elapsed
          THEN tracker' = [tracker EXCEPT
                             !.t = [update_pose(tracker.t) EXCEPT !.d_updated = FALSE],
                             !.before = tracker.t,
                             !.op = "update_pose"]
          ELSE tracker' = [tracker EXCEPT !.op = "mainloop"]

Reset ==
    /\ tracker.op # "reset"
    /\ tracker' = [tracker EXCEPT !.t = reset(tracker.t), !.op = "reset"]

NextTracker ==
    \/ HandleAnalogUpdate /\ UNCHANGED notTracker
    \/ HandleConnection /\ UNCHANGED notTracker
    \/ Mainloop /\ UNCHANGED notTracker
    \/ Reset /\ UNCHANGED notTracker

SpecTracker == InitTracker /\ [][NextTracker]_vars

----------------------------------------------------------------------------
(* The OpenGL contexts of the windows (window.cpp lines 122-136, 605-618,
   768-865).  A handle is a positive number, 0 is nullptr.
   context.windows[i] holds _windowHandle of window i,
   context.currentContextOwner and context.sharedHandle are the static
   members of Window, context.current is the context that GLFW has made
   current on the thread.  op and requested describe the last call. *)

MaxContextCalls == 6

ContextWindows == {1, 2}

NullHandle == 0

(* lines 128-136: every construction resets the static _sharedHandle *)
Window_ctor(c, i) ==
    [c EXCEPT !.windows[i] = [constructed |-> TRUE, windowHandle |-> NullHandle],
              !.sharedHandle = NullHandle]

(* lines 818-865 of openWindow: created is what glfwCreateWindow returns *)
openWindow(c, i, share, created) ==
    IF created = NullHandle
    THEN [c EXCEPT !.windows[i].windowHandle = NullHandle]
    ELSE LET shared == IF share # NullHandle THEN share ELSE created IN
         [c EXCEPT !.windows[i].windowHandle = created,
                   !.sharedHandle = shared,
                   !.current = shared]

(* The handle that makeOpenGLContextCurrent is asked to make current *)
RequestedHandle(c, i, ctx) ==
    IF ctx = "Shared" THEN c.sharedHandle ELSE c.windows[i].windowHandle

(* lines 605-614 *)
makeOpenGLContextCurrent(c, i, ctx) ==
    IF ctx = "Shared" /\ c.currentContextOwner # c.sharedHandle
    THEN [c EXCEPT !.current = c.sharedHandle,
                   !.currentContextOwner = c.sharedHandle]
    ELSE IF ctx = "Window" /\ c.currentContextOwner # c.windows[i].windowHandle
         THEN [c EXCEPT !.current = c.windows[i].windowHandle,
                        !.currentContextOwner = c.windows[i].windowHandle]
         ELSE c

(* lines 616-618 *)
restoreSharedContext(c) == [c EXCEPT !.current = c.sharedHandle]

InitContext ==
    /\ context = [windows |-> [i \in ContextWindows |->
                                  [constructed |-> FALSE, windowHandle |-> NullHandle]],
                  currentContextOwner |-> NullHandle, sharedHandle |-> NullHandle,
                  current |-> NullHandle, op |-> "none", requested |-> NullHandle,
                  calls |-> 0]
    /\ EarlyOff /\ MsgOff /\ ThreadsOff /\ ShadersOff /\ TrackerOff

OpenedHandles == {context.windows[i].windowHandle : i \in ContextWindows} \ {NullHandle}

ConstructWindow ==
    /\ context.calls < MaxContextCalls
    /\ \E i \in ContextWindows :
          /\ ~context.windows[i].constructed
          /\ context' = [Window_ctor(context, i) EXCEPT !.op = "Window", !.calls = @ + 1]

(* openWindow of a window not yet open; the handle of window i is i *)
OpenWindowContext ==
    /\ context.calls < MaxContextCalls
    /\ \E i \in ContextWindows, share \in OpenedHandles \cup {NullHandle},
          created \in BOOLEAN :
          /\ context.windows[i].constructed
          /\ context.windows[i].windowHandle = NullHandle
          /\ context' = [openWindow(context, i, share, IF created THEN i ELSE NullHandle)
                            EXCEPT !.op = "openWindow", !.calls = @ + 1]

MakeOpenGLContextCurrent ==
    /\ context.calls < MaxContextCalls
    /\ \E i \in ContextWindows, ctx \in {"Shared", "Window"} :
          /\ context.windows[i].windowHandle # NullHandle
          /\ context' = [makeOpenGLContextCurrent(context, i, ctx)
                            EXCEPT !.op = "makeOpenGLContextCurrent",
                                   !.requested = RequestedHandle(context, i, ctx),
                                   !.calls = @ + 1]

RestoreSharedContext ==
    /\ context.calls < MaxContextCalls
    /\ \E i \in ContextWindows :
          /\ context.windows[i].windowHandle # NullHandle
          /\ context' = [restoreSharedContext(context)
                            EXCEPT !.op = "restoreSharedContext", !.calls = @ + 1]

NextContext ==
    \/ ConstructWindow /\ UNCHANGED notContext
    \/ OpenWindowContext /\ UNCHANGED notContext
    \/ MakeOpenGLContextCurrent /\ UNCHANGED notContext
    \/ RestoreSharedContext /\ UNCHANGED notContext

SpecContext == InitContext /\ [][NextContext]_vars

----------------------------------------------------------------------------
(* Properties of the cluster *)

(* the transfer flags of datatransfer, which only the master may set *)
TransferFlags(a, gl) ==
    IF a = "datatransfer"
    THEN << gl.transfer, gl.serverUploadDone, gl.clientsUploadDone, gl.imagePaths >>
    ELSE << >>

(* C1: in datatransfer, from the moment a node has the frame's values (the
   master after encodeFun, a client after decodeFun) until its drawFun, its
   currentTime, stats and texIndex are the values the master encoded for
   this frame, and these are the values postSyncPreDrawFun and drawFun use. *)
C1_DrawUsesEncodedValues ==
    app = "datatransfer" =>
        \A n \in Nodes :
            /\ phase[n] \in {"Sync", "PostSync", "Draw"} =>
                  /\ encoded.frame = frame
                  /\ SharedOf(app, globals[n]) = encoded.vals
            /\ phase[n] = "Draw" => used[n] = encoded.vals

C1_Witness ==
    /\ app = "datatransfer"
    /\ \A n \in Nodes : phase[n] = "Draw" /\ used[n] = encoded.vals
    /\ encoded.frame > 0
    /\ encoded.vals[2] = TRUE
    /\ encoded.vals[3] = 0
    /\ loaderPc # "check"

(* C2: for each of the four applications, decoding the bytes written by the
   encode callback consumes all of them and gives the master's value of every
   synchronised variable, both for a fresh process and on the clients of the
   running cluster. *)
C2_DecodeReproducesEncode ==
    /\ app \in Apps
    /\ LET bytes == EncodeFun(app, globals[Master])
           r == DecodeFun(app, Globals(app), bytes, 0)
       IN  /\ SharedOf(app, r.g) = SharedOf(app, globals[Master])
           /\ r.pos = Len(bytes)
    /\ \A n \in Clients :
          phase[n] = "Sync" =>
              /\ SharedOf(app, globals[n]) = encoded.vals
              /\ decodePos[n] = Len(wire)

C2_Witness ==
    \E n \in Clients :
        /\ app = "datatransfer"
        /\ phase[n] = "Sync"
        /\ decodePos[n] = Len(wire)
        /\ globals[n].stats /\ globals[n].texIndex = 0 /\ globals[n].currentTime = 2
        /\ SharedOf(app, globals[n]) = SharedOf(app, globals[Master])

(* C3: on a node that is not the master a synchronised variable changes only
   in the step that runs the decode callback, and the transfer flags of
   datatransfer never change there. *)
C3_OnlyDecodeChangesShared ==
    [][\A n \in Clients :
          /\ SharedOf(app, globals[n])' # SharedOf(app, globals[n]) =>
                 (phase[n] = "PreSync" /\ phase'[n] = "Sync" /\ inbox[n] # << >>)
          /\ TransferFlags(app, globals[n])' = TransferFlags(app, globals[n])]_vars

C3_Witness ==
    \E n \in Clients :
        /\ app = "datatransfer"
        /\ events[n] = MaxEvents
        /\ frame = 0 /\ phase[n] = "Idle"
        /\ globals[n] = DtGlobals

----------------------------------------------------------------------------
(* Properties of the correction-mesh loaders (checked under SpecMesh) *)

MpcdiLoaded == meshOut.loader = "mpcdi"
ScissLoaded == meshOut.loader = "sciss"
HeaderBytes(m) == Len(MpcdiHeader(m.tag, m.cols, m.rows, m.pad))

(* a well-formed Format A buffer: tag PF, header inside the scan window,
   at least cols*rows triplets *)
MpcdiWellFormed ==
    /\ meshMeta.kind = "header"
    /\ meshMeta.tag = PF
    /\ HeaderBytes(meshMeta) <= MaxHeaderLineLength
    /\ meshMeta.triplets >= meshMeta.cols * meshMeta.rows

(* C4: a well-formed PFM buffer with C columns and R rows is parsed
   successfully, C*R*12 bytes are consumed after the header, and the result
   has C*R vertices and 6*(C-1)*(R-1) indices as a triangle list. *)
C4_WellFormedPfmParses ==
    (MpcdiLoaded /\ MpcdiWellFormed) =>
        /\ meshOut.status = "ok"
        /\ meshOut.srcIdx - HeaderBytes(meshMeta) = meshMeta.cols * meshMeta.rows * 3 * 4
        /\ Len(meshOut.vertices) = meshMeta.cols * meshMeta.rows
        /\ Len(meshOut.indices) = 6 * (meshMeta.cols - 1) * (meshMeta.rows - 1)
        /\ meshOut.geometryType = "GL_TRIANGLES"

(* C5: every index of a successfully loaded mesh (either loader) is
   strictly less than the number of vertices. *)
C5_IndicesBelowVertexCount ==
    (meshOut.loader \in {"mpcdi", "sciss"} /\ meshOut.status = "ok") =>
        \A i \in 1..Len(meshOut.indices) : meshOut.indices[i] < Len(meshOut.vertices)

(* the section of a Format B file in which the configured file is cut short *)
CutSection(cut) ==
    CASE cut = "partialDescriptor" -> "descriptor"
      [] cut = "partialVertex" -> "vertices"
      [] OTHER -> cut
ShortCuts == ScissSections \cup {"partialDescriptor", "partialVertex"}

(* one file per short-read section, to compare the errors raised *)
ScissProbes ==
    { [version |-> 1, size |-> << 2, 2 >>, view |-> CHOOSE v \in ScissViews : v.qw = Unit,
       idx |-> "valid", cut |-> c] : c \in ShortCuts }

(* C6: a short read in any section of a Format B file makes
   generateScissMesh throw, in that section, an error different from the
   error raised for a short read in every other section. *)
C6_ShortReadDistinctError ==
    (ScissLoaded /\ meshMeta.m.cut \in ShortCuts) =>
        /\ meshOut.status = "throw"
        /\ meshOut.section = CutSection(meshMeta.m.cut)
        /\ \A q \in ScissProbes :
              CutSection(q.cut) # meshOut.section =>
                  generateScissMesh(ScissInput(q), parentBefore).error # meshOut.error

C6_Witness ==
    /\ ScissLoaded
    /\ meshMeta.m.cut = "partialDescriptor"
    /\ meshOut.status = "throw"
    /\ meshOut.section = "descriptor"

(* C7: the number of vertices read is the second descriptor value for file
   version 2 and the product of both values for any other version: a complete
   file holding that many vertex records is accepted with exactly that many
   vertices. *)
C7_VertexCountByVersion ==
    /\ (ScissLoaded /\ meshMeta.m.cut = "full") => meshOut.status = "ok"
    /\ (ScissLoaded /\ meshOut.status = "ok") =>
        /\ meshMeta.m.version = 2 => Len(meshOut.vertices) = meshMeta.m.size[2]
        /\ meshMeta.m.version # 2 =>
               Len(meshOut.vertices) = meshMeta.m.size[1] * meshMeta.m.size[2]
        /\ (meshMeta.m.version = 2 /\ meshMeta.m.size = << 4, 100 >>) =>
               Len(meshOut.vertices) = 100
        /\ (meshMeta.m.version = 1 /\ meshMeta.m.size = << 10, 10 >>) =>
               Len(meshOut.vertices) = 100

C7_Witness ==
    /\ ScissLoaded
    /\ meshOut.status = "ok"
    /\ meshMeta.m.version = 2
    /\ meshMeta.m.size = << 4, 100 >>
    /\ Len(meshOut.vertices) = 100

(* C8: when generateScissMesh throws a parse error, the owning viewport
   (user position, view plane, FOV) is exactly what it was before the call;
   the view metadata is applied only by a call that returns a mesh. *)
C8_NoPartialAccept ==
    ScissLoaded =>
        /\ meshOut.status = "throw" => parent = parentBefore
        /\ parent # parentBefore => meshOut.status = "ok"

C8_Witness ==
    /\ ScissLoaded
    /\ meshOut.status = "throw"
    /\ meshOut.section = "indices"
    /\ meshMeta.m.view.x = Unit
    /\ parent = parentBefore
    /\ parent.userPos = Vec3(0, 0, 0)

(* C9: the header scan never stores past headerBuffer[99], and a buffer
   without three newlines in its first 100 bytes is rejected with an error. *)
ThreeNewlinesInWindow ==
    Cardinality({i \in 1..Min(Len(mpcdiWarpMesh), MaxHeaderLineLength) :
                    mpcdiWarpMesh[i] = NL}) >= 3
C9_HeaderScanBounded ==
    MpcdiLoaded =>
        /\ meshOut.headerStores <= MaxHeaderLineLength
        /\ ~ThreeNewlinesInWindow => meshOut.status = "throw"

(* C10: a buffer with a header in the scan window but fewer than cols*rows
   triplets after it is rejected with an error, and the read cursor stays
   inside the buffer. *)
MpcdiShortData ==
    /\ meshMeta.kind = "header"
    /\ HeaderBytes(meshMeta) <= MaxHeaderLineLength
    /\ meshMeta.triplets < meshMeta.cols * meshMeta.rows
C10_ShortDataRejected ==
    (MpcdiLoaded /\ MpcdiShortData) =>
        /\ meshOut.status = "throw"
        /\ meshOut.srcIdx <= Len(mpcdiWarpMesh)

C10_Witness ==
    /\ MpcdiLoaded
    /\ MpcdiShortData
    /\ meshMeta.tag = PF
    /\ meshMeta.cols = 4 /\ meshMeta.rows = 3 /\ meshMeta.triplets = 11
    /\ meshOut.status = "throw"

(* C11: a Format B file that was accepted has its topology chosen by the
   version byte and the first descriptor value, "version 2" being the byte
   value for which ScissVertexCount takes the second descriptor value:
   version 2 with first value 4 is a triangle list, version 2 with first
   value 5 a triangle strip, version 1 a triangle strip. *)
C11_TopologyByVersion ==
    (ScissLoaded /\ meshOut.status = "ok") =>
        LET v == meshOut.fileVersion
            first == meshOut.size[1]
            isVersion2 == ScissVertexCount(v, << 3, 7 >>) = 7
        IN  /\ (isVersion2 /\ first = 4) => meshOut.geometryType = "GL_TRIANGLES"
            /\ (isVersion2 /\ first = 5) => meshOut.geometryType = "GL_TRIANGLE_STRIP"
            /\ v = 1 => meshOut.geometryType = "GL_TRIANGLE_STRIP"

(* C12: when the owning viewport's position and position + size lie in the
   unit square, every vertex of a mesh returned by generateMpcdiMesh or
   generateScissMesh has x and y in [-1, 1] and s and t in [0, 1]. *)
ViewportInUnitSquare(vp) ==
    \A k \in 1..2 :
        /\ vp.mPosition[k] >= 0 /\ vp.mPosition[k] <= Unit
        /\ vp.mPosition[k] + vp.mSize[k] >= 0 /\ vp.mPosition[k] + vp.mSize[k] <= Unit

C12_VerticesInRange ==
    ((MpcdiLoaded \/ ScissLoaded) /\ meshOut.status = "ok" /\ ViewportInUnitSquare(parent)) =>
        \A i \in 1..Len(meshOut.vertices) :
            LET v == meshOut.vertices[i]
            IN  /\ v.x >= -Unit /\ v.x <= Unit
                /\ v.y >= -Unit /\ v.y <= Unit
                /\ v.s >= 0 /\ v.s <= Unit
                /\ v.t >= 0 /\ v.t <= Unit

C12_Witness ==
    /\ ScissLoaded
    /\ meshOut.status = "ok"
    /\ parent.mPosition = << Unit \div 2, 0 >>
    /\ ViewportInUnitSquare(parent)
    /\ \E i \in 1..Len(meshOut.vertices) :
          /\ TexturedVertexOf(meshFile.words, 14, i - 1).x > Unit
          /\ meshOut.vertices[i].x = Unit
    /\ \E i \in 1..Len(meshOut.vertices) :
          /\ TexturedVertexOf(meshFile.words, 14, i - 1).ty < 0
          /\ meshOut.vertices[i].t = 0

----------------------------------------------------------------------------
(* Properties of the window *)

(* equal up to the rounding of the arithmetic: one percent and one unit *)
Close(a, b) == 100 * Abs(a - b) <= Abs(b) + 100

(* C13: outside the moment between updateResolutions and update, the pixel
   size last given to NonLinearProjection::update is the viewport's current
   pixel size unless the resize is still waiting to be handled
   (isWindowResized): no swap consumes a resize that update did not pass on. *)
C13_NonLinearProjectionFollowsResize ==
    (winPc \in {"updateResolutions", "swap"} /\ wvp.hasSubViewports) =>
        \/ wvp.nlpSize = ViewportPixelSize(win, wvp)
        \/ isWindowResized(win)

(* C14: getResolution() and getFramebufferResolution() change only in the
   updateResolutions step, which applies the pending values and clears the
   flags; the resize callbacks leave them alone. *)
UpdateResolutionsStep == winPc = "updateResolutions" /\ winPc' = "update"
C14_ResizeDeferred ==
    [][/\ (win'.windowRes # win.windowRes \/ win'.framebufferRes # win.framebufferRes)
              => UpdateResolutionsStep
       /\ UpdateResolutionsStep =>
              /\ win'.windowRes = IF win.hasPendingWindowRes
                                  THEN win.pendingWindowRes ELSE win.windowRes
              /\ win'.framebufferRes = IF win.hasPendingFramebufferRes
                                       THEN win.pendingFramebufferRes
                                       ELSE win.framebufferRes
              /\ ~win'.hasPendingWindowRes /\ ~win'.hasPendingFramebufferRes]_vars

C14_Witness ==
    /\ winPc = "swap"
    /\ win.resizes = MaxResizes
    /\ win.hasPendingWindowRes /\ win.pendingWindowRes # win.windowRes
    /\ win.hasPendingFramebufferRes /\ win.pendingFramebufferRes # win.framebufferRes
    /\ wvp.aspectUpdates = 1

(* C20: after any sequence of resizes the stored aspect ratio is that of the
   window resolution, the y and z coordinates of the untransformed corners
   are the initial ones, and the x coordinates are the initial ones times
   current aspect / initial aspect, whatever the intermediate sizes were. *)
Corners == {"lowerLeft", "upperLeft", "upperRight"}
C20_HorizontalFovFollowsAspect ==
    winPc # "off" =>
        /\ win.aspectRatio = AspectOf(win.windowRes)
        /\ \A c \in Corners :
              /\ wvp.unTransformed[c][2] = wvp.initialCoords[c][2]
              /\ wvp.unTransformed[c][3] = wvp.initialCoords[c][3]
              /\ Close(wvp.unTransformed[c][1],
                       CDiv(wvp.initialCoords[c][1] * win.aspectRatio, wvp.initialAspect))
              /\ wvp.plane[c] = QuatRotate(wvp.mRot, wvp.unTransformed[c])

C20_Witness ==
    /\ wvp.aspectUpdates >= 2
    /\ win.windowRes = << 128, 72 >>
    /\ win.aspectRatio # wvp.initialAspect
    /\ wvp.unTransformed.upperRight[1] # wvp.initialCoords.upperRight[1]
    /\ wvp.mRot = HalfTurnY

(* C19: after setBarrier(s), if swap groups were in use, s differed from the
   flag and the bind call succeeded, isBarrierActive() is s; if swap groups
   were not in use or s was already the flag, the flag is what it was. *)
C19_BarrierReportsRequest ==
    LET c == swapGroup.barrierCall
    IN  c.bind # "none" =>
            /\ (c.useSwapGroups /\ c.state # c.before /\ c.bind = "ok") =>
                       isBarrierActive(swapGroup) = c.state
            /\ (~c.useSwapGroups \/ c.state = c.before) =>
                       isBarrierActive(swapGroup) = c.before


----------------------------------------------------------------------------
(* Claims about the field-of-view interface (SpecFov) *)

(* the last call worked on a projection plane at zero distance *)
DegenerateCall ==
    \/ bvpCall.op = "setViewPlaneCoordsUsingFOVs" /\ bvpCall.dist = 0
    \/ /\ bvpCall.op = "getHorizontalFieldOfViewDegrees"
       /\ ~bvpCall.beforeNan
       /\ bvpCall.before.plane.upperRight[3] = 0

(* C15: degenerate viewing geometry is rejected with a configuration error:
   setViewPlaneCoordsUsingFOVs with dist = 0, and
   getHorizontalFieldOfViewDegrees on a plane at zero distance, raise an
   error instead of accepting the plane or dividing by zero. *)
C15_DegenerateGeometryRejected ==
    DegenerateCall => bvpCall.error # "none"

(* a and b differ by no more than a tenth of b (and a hundredth of a unit):
   wider than any rounding of the fixed-point arithmetic *)
Near(a, b) == 10 * Abs(a - b) <= Abs(b) + 100

PlaneClose(p, q) ==
    \A c \in {"lowerLeft", "upperLeft", "upperRight"} :
        \A i \in 1..3 : Near(p[c][i], q[c][i])

(* C16: for every plane set by setViewPlaneCoordsUsingFOVs (any angles, any
   rotation, any distance), setHorizontalFieldOfView(
   getHorizontalFieldOfViewDegrees(), aspect of the plane) leaves the three
   plane corners equal to the original corners within tolerance.  Stated
   here for the planes set at a non-zero distance. *)
C16_FovRoundTripKeepsCorners ==
    (/\ bvpCall.op = "restoreHorizontalFieldOfView"
     /\ ~bvpCall.beforeNan
     /\ bvpCall.before.mDistance # 0)
        => (~bvp.nan /\ PlaneClose(bvp.vp.plane, bvpCall.before.plane))

(* C17: for every h in (0, 180), every aspect ratio > 0 and every viewport
   rotation, after setHorizontalFieldOfView(h, aspect)
   getHorizontalFieldOfViewDegrees() returns h within tolerance.  Stated
   here for viewports whose plane is not at zero distance before the call. *)
C17_SetThenGetReturnsFov ==
    (/\ bvpCall.op = "setHorizontalFieldOfView"
     /\ ~bvpCall.beforeNan
     /\ bvpCall.before.plane.upperRight[3] # 0)
        => (~FovOf(bvp).nan /\ Near(FovOf(bvp).deg, bvpCall.horizFovDeg))


----------------------------------------------------------------------------
(* Claims about the MessageHandler (SpecMsg) *)

(* the texts of the log that were handed over with feedback enabled, joined *)
RECURSIVE FeedbackText(_)
FeedbackText(log) ==
    IF log = << >> THEN << >>
    ELSE (IF Head(log).local THEN << >> ELSE Head(log).text) \o FeedbackText(Tail(log))

(* C18: after any sequence of construction, print, sendMessageToServer and
   clearBuffer calls the outgoing buffer is empty or is exactly mHeaderSize
   sync bytes followed only by message text, and only the texts handed over
   while feedback to the server was enabled (mLocal false) are in it. *)
C18_BufferIsHeaderThenText ==
    ~mh.crashed =>
        \/ mh.mBuffer = << >>
        \/ /\ Len(mh.mBuffer) >= mHeaderSize
           /\ \A i \in 1..mHeaderSize : mh.mBuffer[i] = SyncByte
           /\ SubSeq(mh.mBuffer, mHeaderSize + 1, Len(mh.mBuffer)) = FeedbackText(mh.log)


----------------------------------------------------------------------------
(* Claims about the threads of the datatransfer application (SpecCluster) *)

(* a transfer has been started on the master and is not yet counted in
   texIndex: the loader thread is past startDataTransfer, or the master's
   upload is done and preSync has not run since *)
TransferInFlight ==
    \/ loaderPc \in {"clear", "upload", "done", "aborted"}
    \/ globals[Master].serverUploadDone

(* C21: on the master of datatransfer texIndex is incremented only in preSync
   and only when serverUploadDone and clientsUploadDone are both set; both
   are then reset, and every completed transfer is counted exactly once:
   texIndex is the number of the last package started, less one while that
   package is in flight. *)
C21_OneIncrementPerTransfer ==
    /\ [](app = "datatransfer" =>
            globals[Master].texIndex =
                globals[Master].currentPackage - (IF TransferInFlight THEN 1 ELSE 0))
    /\ [][(app = "datatransfer"
            /\ globals'[Master].texIndex # globals[Master].texIndex)
          => /\ phase[Master] = "Idle" /\ phase'[Master] = "PreSync"
             /\ globals[Master].serverUploadDone /\ globals[Master].clientsUploadDone
             /\ globals'[Master].texIndex = globals[Master].texIndex + 1
             /\ ~globals'[Master].serverUploadDone
             /\ ~globals'[Master].clientsUploadDone]_vars

(* two transfers have been completed and both are counted in texIndex *)
C21_Witness ==
    /\ app = "datatransfer"
    /\ globals[Master].texIndex = 1
    /\ ~TransferInFlight


(* C25: in datatransfer, whenever drawFun reads texIds[texIndex]
   (texIndex # -1), texIndex < texIds.size() holds on every node. *)
C25_DrawIndexInRange ==
    app = "datatransfer" =>
        \A n \in Nodes :
            (phase[n] = "PostSync" /\ globals[n].texIndex # -1)
                => (globals[n].texIndex >= 0
                    /\ globals[n].texIndex < Len(globals[n].texIds))

(* master and client are both about to draw a transferred texture, the
   texture of an image that could not be decoded among them *)
C25_Witness ==
    /\ app = "datatransfer"
    /\ \A n \in Nodes : phase[n] = "PostSync" /\ globals[n].texIndex # -1
    /\ \E n \in Nodes : globals[n].texIds[globals[n].texIndex + 1] = 0


(* an image path accepted by dropCallback has no texture yet on the master *)
PendingDrop ==
    app = "datatransfer"
        /\ Len(globals[Master].imagePaths) > Len(globals[Master].texIds)

(* what ends a run of the model with a transfer under way: the user has quit
   with Esc, or the last frame of the model has been rendered while the
   master waits for preSync to count the completed upload *)
RunCutShort ==
    \/ terminated[Master]
    \/ frame = MaxFrames
          /\ (globals[Master].serverUploadDone \/ globals[Master].clientsUploadDone)

(* C26: every image path accepted by dropCallback on the master is eventually
   transferred and uploaded, under fair scheduling of the loader thread and
   delivery of all acknowledgements. *)
C26_AcceptedDropIsTransferred ==
    PendingDrop ~> (~PendingDrop \/ RunCutShort)


----------------------------------------------------------------------------
(* Claims about concurrent print calls (SpecPrintThreads) *)

(* C22: concurrent print calls do not interleave on the parse buffer: the
   text a call appends to the outgoing buffer is exactly the text the same
   call formatted, and the parse buffer is written only while the console
   mutex is held. *)
C22_PrintCallsDoNotInterleave ==
    /\ \A t \in PrintThreads :
          threads.last[t].sent
              => threads.last[t].appended = threads.last[t].formatted
    /\ ~threads.bareWrite


----------------------------------------------------------------------------
(* Claims about the shader manager (SpecShaders) *)

(* C23: after any sequence of addShaderProgram and removeShaderProgram calls
   the names of the stored programs are unique; an add of a stored name
   throws error 7000; an add whose compilation or linking throws adds
   nothing; a failed call, the remove of an unknown name (which returns
   false) included, leaves the set of programs unchanged. *)
C23_ShaderNamesUnique ==
    /\ \A i, j \in 1..Len(shaders.programs) :
          i # j => shaders.programs[i].name # shaders.programs[j].name
    /\ (shaders.op = "add" /\ shaderProgramExists(shaders.prev, shaders.name))
          => shaders.thrown = 7000
    /\ (shaders.op = "add" /\ shaders.thrown # 0)
          => shaders.programs = shaders.prev
    /\ (shaders.op = "remove" /\ ~shaderProgramExists(shaders.prev, shaders.name))
          => (~shaders.result /\ shaders.programs = shaders.prev)
    /\ (shaders.op = "add" /\ shaders.thrown = 0)
          => /\ Len(shaders.programs) = Len(shaders.prev) + 1
             /\ shaders.programs[Len(shaders.programs)].name = shaders.name
             /\ shaders.programs[Len(shaders.programs)].isLinked

C23_Witness ==
    /\ shaders.op = "add" /\ shaders.thrown = 7000
    /\ Len(shaders.programs) = 2
    /\ shaders.programs[1].programId = 2


----------------------------------------------------------------------------
(* Claims about the Wiimote head tracker (SpecTracker) *)

(* C24: after an analog report with fewer than two valid blobs the next
   update_pose sets d_lock to false and d_flipState to FLIP_UNKNOWN and
   leaves the pose unchanged; the pose is recomputed only from a report
   with exactly two valid blobs. *)
C24_LockLostBelowTwoBlobs ==
    tracker.op = "update_pose" =>
        /\ tracker.valid \in {0, 1} =>
              /\ ~tracker.t.d_lock
              /\ tracker.t.d_flipState = "FLIP_UNKNOWN"
              /\ tracker.t.d_currentPose = tracker.before.d_currentPose
              /\ tracker.t.pos = tracker.before.pos
        /\ tracker.t.d_currentPose # tracker.before.d_currentPose
              => tracker.valid = 2


----------------------------------------------------------------------------
(* Claims about the OpenGL contexts (SpecContext) *)

(* C27: the cached context owner is the context actually current: after any
   sequence of Window constructions, openWindow, makeOpenGLContextCurrent
   and restoreSharedContext calls, on one or several windows,
   makeOpenGLContextCurrent(c) returns with the requested context
   current. *)
C27_RequestedContextIsCurrent ==
    (context.op = "makeOpenGLContextCurrent" /\ context.requested # NullHandle) =>
        /\ context.current = context.requested
        /\ context.currentContextOwner = context.current

====
